---- MODULE Spec2Model ----
(***************************************************************************)
(* criticode: the analyze pipeline of the server.                          *)
(*   - GeminiService.analyzeCode   (services/gemini.service.ts)            *)
(*   - ReviewService               (services/review.service.ts)            *)
(*   - the rate limiters           (middleware/rateLimit.middleware.ts)    *)
(*   - optionalAuth / authenticateToken (middleware/auth.middleware.ts)    *)
(*   - the /analyze and /:id routes (routes/review.routes.ts)              *)
(*   - useAuthStore of the client  (store/authStore.ts)                    *)
(* Each subsystem has its own specification over the shared variables:     *)
(*   SpecInvoker, SpecStore, SpecLimiter, Spec (the analyze route),        *)
(*   SpecAdmission (the analyze route under sustained identified load),    *)
(*   SpecLive (the analyze route on a server that keeps running),          *)
(*   SpecParse (parseResponse), SpecAuth (the authentication middlewares), *)
(*   SpecManage (the review-management routes), SpecInvokerLive (the retry *)
(*   loop under fair timers), SpecClasses (the limiter classes side by     *)
(*   side), SpecCharge (the analyze limiter before validation) and         *)
(*   SpecClient (the auth store of the client, store/authStore.ts).        *)
(***************************************************************************)
EXTENDS Integers, Sequences, FiniteSets, TLC

VARIABLES
    \* ---- GeminiService (one analyzeCode call) ----
    client,      \* this.client !== null
    gpc,         \* position of the analyzeCode call
    gInput,      \* the (code, language) arguments of the call
    attempt,     \* the loop variable of the retry loop
    lastError,   \* let lastError
    extCalls,    \* number of model.generateContent calls made by this call
    delays,      \* the backoff delays awaited so far (ms), in order
    attemptLog,  \* how each finished attempt ended, in order
    elapsed,     \* ms since analyzeCode was entered
    abandoned,   \* external calls whose attempt timed out and that are still running
    calls,       \* per makeApiRequest call: its promise, its timer, its external call
    gOutcome,    \* what analyzeCode returned or threw
    \* ---- ReviewService and the reviews table ----
    reviews,     \* the rows of the reviews table
    nextId,      \* the next id the table generates
    pending,     \* deleteReview calls between their ownership check and their delete
    storeResp,   \* the store operation completed by the step just made, if any, and its response
    \* ---- the rate limiters ----
    now,         \* Date.now(), in ms
    hits,        \* per limiter and key: the window record of its store
    inflight,    \* limiter checks between their increment and their decision
    lastDecision,\* the decision a limiter took in the step just made, if any
    seen,        \* per limiter and caller: the fixed window of section 4.2
    \* ---- the /analyze and /upload routes (one request at a time) ----
    ppc,         \* position of the request in the middleware chain
    preq,        \* the request, with what optionalAuth attached to it
    presp,       \* the response sent
    plog,        \* what the handler called while serving the request
    \* ---- parseResponse on its own ----
    rPayload,    \* the payload P the external model answers with
    rPlain,      \* parseResponse of P as it is
    rFenced,     \* parseResponse of P inside a fenced block
    \* ---- the user directory and the authentication middlewares ----
    directory,   \* the users that exist
    areq,        \* the request a middleware has just handled, with the outcome
    \* ---- the review-management routes (one request at a time) ----
    mpc,         \* position of the request in the middleware chain
    mreq,        \* the request, with what authenticateToken attached to it
    mresp,       \* the response sent
    mlog,        \* what was done for the request: limiter increments, store calls
    \* ---- the client auth store (useAuthStore) and localStorage ----
    stateUser,   \* state.user
    stateToken,  \* state.token
    isAuthenticated, \* state.isAuthenticated
    isLoading,   \* state.isLoading
    authToken,   \* localStorage["authToken"]
    awaiting     \* store actions suspended at their await, in call order

invokerVars ==
    <<client, gpc, gInput, attempt, lastError, extCalls, delays, attemptLog,
      elapsed, abandoned, calls, gOutcome>>

storeVars == <<reviews, nextId, pending, storeResp>>

limiterVars == <<now, hits, inflight, lastDecision, seen>>

pipeVars == <<ppc, preq, presp, plog>>

parseVars == <<rPayload, rPlain, rFenced>>

authVars == <<directory, areq>>

manageVars == <<mpc, mreq, mresp, mlog>>

clientVars == <<stateUser, stateToken, isAuthenticated, isLoading, authToken, awaiting>>

vars ==
    <<invokerVars, storeVars, limiterVars, pipeVars, parseVars, authVars,
      manageVars, clientVars>>

----------------------------------------------------------------------------
\* Error values.  A message is represented by the keywords the route
\* handlers look for in it with String.includes (case-sensitive).

Keywords == {"timeout", "network", "validation", "invalid", "rate limit"}

NoError == [name |-> "none", kw |-> {}, origName |-> "none", origKw |-> {}]

Err(name, kw) == [name |-> name, kw |-> kw, origName |-> "none", origKw |-> {}]

\* 'Gemini API request timed out after 15 seconds': none of the keywords
\* occurs in it ("timed out" is not "timeout").
GeminiTimeoutError == Err("GeminiTimeoutError", {})

\* 'Failed to parse Gemini response as valid JSON. Response: <first 200
\* characters of the response>...': the keywords are those of the excerpt.
GeminiParseError(responseText) == Err("GeminiParseError", responseText.kw)

\* 'Gemini API key is not configured. Please set GEMINI_API_KEY environment
\* variable.'
GeminiConfigError == Err("GeminiConfigError", {})

\* new GeminiServiceError(message, originalError)
GeminiServiceError(kw, original) ==
    [name |-> "GeminiServiceError", kw |-> kw,
     origName |-> original.name, origKw |-> original.kw]

\* What model.generateContent can reject with: any Error, e.g. 'fetch failed',
\* 'network error', 'invalid argument', 'rate limit exceeded'.
TransportErrors ==
    { Err("Error", {}), Err("Error", {"network"}),
      Err("Error", {"invalid"}), Err("Error", {"rate limit"}) }

----------------------------------------------------------------------------
\* GeminiService constants

timeout == 15000

maxRetries == 2

baseDelay == 1000

MaxCodeLength == 100000

RECURSIVE Pow2(_)
Pow2(n) == IF n <= 0 THEN 1 ELSE 2 * Pow2(n - 1)

delayMutant(a) == baseDelay * Pow2(a)

\* delay(attempt): baseDelay * Math.pow(2, attempt - 1)
delay(a) == baseDelay * Pow2(a - 1)

----------------------------------------------------------------------------
\* Inputs of analyzeCode.  A code value is represented by whether it is a
\* string and by its length; a language by whether it is a string and its text.

Codes ==
    { [str |-> FALSE, len |-> 0] } \cup
    { [str |-> TRUE, len |-> n] : n \in {0, 1, MaxCodeLength, MaxCodeLength + 1} }

Languages ==
    { [str |-> FALSE, text |-> ""], [str |-> TRUE, text |-> ""],
      [str |-> TRUE, text |-> "sql"] }

\* !code || typeof code !== 'string'
CodeMissing(code) == ~code.str \/ code.len = 0

\* !language || typeof language !== 'string'
LanguageMissing(language) == ~language.str \/ language.text = ""

CodeTooLongMutant(code) == code.len >= MaxCodeLength

\* code.length > 100000
CodeTooLong(code) == code.len > MaxCodeLength

----------------------------------------------------------------------------
\* Responses of the external model.  A response text is a sequence of tokens
\* (a ``` fence, the word json, white space, other text that is no JSON, or
\* the text of one JSON value) together with the keywords occurring in its
\* first 200 characters.

MaxItems == 1

Severities == {"Critical", "High", "Medium", "Low"}

FieldNames == {"security", "performance", "bestPractices", "refactoring"}

\* The line of an entry: absent, not a number (t = "string"), or a number
\* with value v, which is an integer or not (1.5 is v = 1, whole = FALSE).
Line(t, whole, v) == [t |-> t, whole |-> whole, v |-> v]

NoLine == Line("missing", FALSE, 0)

Zero == Line("number", TRUE, 0)

Lines ==
    { NoLine, Line("string", FALSE, 0), Zero, Line("number", TRUE, 7),
      Line("number", TRUE, -1), Line("number", FALSE, 1) }

\* An entry of an array: null, a primitive (a number, a string, a boolean), or
\* an object (or array) with its severity ("missing" when absent; any value
\* outside Severities stands for every unrecognized one) and its line.
Item(kind, severity, line) == [kind |-> kind, severity |-> severity, line |-> line]

NullItem == Item("null", "missing", NoLine)

PrimitiveItem == Item("primitive", "missing", NoLine)

SecurityItems ==
    { NullItem, PrimitiveItem } \cup
    { Item("object", s, l) : s \in {"missing", "High", "Bogus"},
                             l \in {NoLine, Line("number", TRUE, 7)} }

OtherItems ==
    { NullItem, PrimitiveItem } \cup { Item("object", "missing", l) : l \in Lines }

\* A field of the parsed object: absent, present but no array, or an array.
Field(present, array, items) == [present |-> present, array |-> array, items |-> items]

MissingField == Field(FALSE, FALSE, <<>>)

NotArrayField == Field(TRUE, FALSE, <<>>)

ArrayField(items) == Field(TRUE, TRUE, items)

SeqsUpTo(S, n) == UNION { [1 .. k -> S] : k \in 0 .. n }

FieldsOf(items) ==
    { MissingField, NotArrayField } \cup
    { ArrayField(s) : s \in SeqsUpTo(items, MaxItems) }

NoFields == [f \in FieldNames |-> MissingField]

\* What JSON.parse can return.
JsonValue(kind, fields) == [kind |-> kind, fields |-> fields]

NoValue == JsonValue("none", NoFields)

Objects ==
    { JsonValue("object",
                [security |-> s, performance |-> p, bestPractices |-> b,
                 refactoring |-> r]) :
        s \in FieldsOf(SecurityItems), p \in FieldsOf(OtherItems),
        b \in {MissingField, NotArrayField, ArrayField(<<>>)},
        r \in {MissingField,
               ArrayField(<<Item("object", "missing", Line("string", FALSE, 0))>>)} }

JsonValues ==
    { JsonValue(k, NoFields) : k \in {"null", "number", "string", "array"} }
    \cup Objects

Token(t, v) == [t |-> t, v |-> v]

FenceTok == Token("fence", NoValue)

JsonTok == Token("json", NoValue)

WsTok == Token("ws", NoValue)

JunkTok == Token("junk", NoValue)

ValueTok(v) == Token("value", v)

Fences == {"none", "json", "plain"}

\* The payload P inside a fenced block: ```json <newline> P <newline> ```
Wrap(fence, tokens) ==
    IF fence = "none" THEN tokens
    ELSE <<FenceTok>> \o (IF fence = "json" THEN <<JsonTok>> ELSE <<>>)
         \o <<WsTok>> \o tokens \o <<WsTok, FenceTok>>

ResponseText(tokens, kw) == [tokens |-> tokens, kw |-> kw]

\* String.prototype.trim, /^\s*/ and /\s*$/
RECURSIVE StripLeft(_)
StripLeft(s) ==
    IF s # <<>> /\ Head(s) = WsTok THEN StripLeft(Tail(s)) ELSE s

RECURSIVE StripRight(_)
StripRight(s) ==
    IF s # <<>> /\ s[Len(s)] = WsTok
    THEN StripRight(SubSeq(s, 1, Len(s) - 1))
    ELSE s

Trim(s) == StripRight(StripLeft(s))

StartsWith(s, p) == Len(s) >= Len(p) /\ SubSeq(s, 1, Len(p)) = p

StripClosingFenceMutant(s) == s

\* .replace(/\s*```$/, '')
StripClosingFence(s) ==
    IF s # <<>> /\ s[Len(s)] = FenceTok
    THEN StripRight(SubSeq(s, 1, Len(s) - 1))
    ELSE s

\* The markdown code block removal of parseResponse.
CleanResponse(tokens) ==
    LET t == Trim(tokens) IN
    IF StartsWith(t, <<FenceTok, JsonTok>>)
    THEN StripClosingFence(StripLeft(SubSeq(t, 3, Len(t))))
    ELSE IF StartsWith(t, <<FenceTok>>)
    THEN StripClosingFence(StripLeft(Tail(t)))
    ELSE t

\* JSON.parse(cleanedResponse): the value, or NoValue for a SyntaxError.  The
\* text parses when it is one JSON value with white space around it.
JsonParse(tokens) ==
    LET t == Trim(tokens) IN
    IF Len(t) = 1 /\ t[1].t = "value" THEN t[1].v ELSE NoValue

\* !parsed || typeof parsed !== 'object'   (typeof [] is 'object')
NotAnObject(v) == v.kind \notin {"array", "object"}

\* Array.isArray(parsed.x) ? parsed.x : []
RepairField(v, name) ==
    IF v.fields[name].present /\ v.fields[name].array
    THEN v.fields[name].items
    ELSE <<>>

EmptyAnalysis ==
    [security |-> <<>>, performance |-> <<>>, bestPractices |-> <<>>,
     refactoring |-> <<>>]

\* validateAnalysisResult reads issue.severity / issue.line of every entry and
\* assigns to them: a null entry throws on the read, a primitive entry on the
\* assignment (class bodies are strict code; a primitive never has a numeric
\* line, so it is always assigned to).
ValidateThrows(result) ==
    \E name \in FieldNames : \E i \in 1 .. Len(result[name]) :
        result[name][i].kind \in {"null", "primitive"}

SeverityOrMediumMutant(s) == s

\* severity stays when it is one of the four, else 'Medium'
SeverityOrMedium(s) == IF s \in Severities THEN s ELSE "Medium"

\* line stays when typeof line is 'number', else 0
LineOrZero(l) == IF l.t = "number" THEN l ELSE Zero

validateAnalysisResult(result) ==
    [name \in FieldNames |->
        [i \in 1 .. Len(result[name]) |->
            LET issue == result[name][i] IN
            IF name = "security"
            THEN Item(issue.kind, SeverityOrMedium(issue.severity),
                      LineOrZero(issue.line))
            ELSE Item(issue.kind, issue.severity, LineOrZero(issue.line))]]

\* parseResponse: the result, or the GeminiParseError its catch block throws
\* for every exception raised inside the try block.
parseResponse(text) ==
    LET parsed == JsonParse(CleanResponse(text.tokens))
        result == [name \in FieldNames |-> RepairField(parsed, name)]
        failed == [ok |-> FALSE, error |-> GeminiParseError(text),
                   value |-> EmptyAnalysis] IN
    IF parsed = NoValue THEN failed
    ELSE IF NotAnObject(parsed) THEN failed
    ELSE IF ValidateThrows(result) THEN failed
    ELSE [ok |-> TRUE, error |-> NoError, value |-> validateAnalysisResult(result)]

\* The responses the external model gives in the specifications of the
\* analyzeCode call and of the routes.
ResponseTexts ==
    { ResponseText(Wrap(f, p), kw) :
        f \in Fences,
        p \in { <<JunkTok>> } \cup
              { <<ValueTok(JsonValue(k, NoFields))>> :
                  k \in {"null", "number", "array", "object"} },
        kw \in {{}, {"timeout"}, {"invalid"}} }

\* What is kept of a parseResponse call: whether it was made, on which fenced
\* form of the payload, and what it returned or threw.
ParseRecord(done, fence, r) ==
    [done |-> done, fence |-> fence, ok |-> r.ok, value |-> r.value,
     error |-> r.error.name]

NoParse ==
    ParseRecord(FALSE, "none", [ok |-> FALSE, value |-> EmptyAnalysis, error |-> NoError])

ParseIdle ==
    /\ rPayload = <<>>
    /\ rPlain = NoParse
    /\ rFenced = NoParse

----------------------------------------------------------------------------
\* GeminiService.analyzeCode

NoInput == [code |-> [str |-> FALSE, len |-> 0],
            language |-> [str |-> FALSE, text |-> ""]]

NoOutcome == [kind |-> "none", error |-> NoError, value |-> EmptyAnalysis]

Returned(v) == [kind |-> "returned", error |-> NoError, value |-> v]

Thrown(e) == [kind |-> "thrown", error |-> e, value |-> EmptyAnalysis]

InvokerIdle ==
    /\ gpc = "idle"
    /\ gInput = NoInput
    /\ attempt = 0
    /\ lastError = NoError
    /\ extCalls = 0
    /\ delays = <<>>
    /\ attemptLog = <<>>
    /\ elapsed = 0
    /\ abandoned = 0
    /\ calls = <<>>
    /\ gOutcome = NoOutcome

\* makeApiRequest: the promise it returns (pending, or how it was settled:
\* resolved with the text, rejected with the transport error, rejected with
\* the GeminiTimeoutError of the timer), its timer and its external call.
NewCall == [promise |-> "pending", timer |-> "armed", ext |-> "running"]

SettleMutant(p, how) == how

\* resolve(value) / reject(error) of a promise: the first one settles it,
\* the later ones do nothing.
Settle(p, how) == IF p = "pending" THEN how ELSE p

\* clearTimeout(timeoutId): cancels the timer if it has not fired.
clearTimeout(t) == IF t = "armed" THEN "cleared" ELSE t

\* The executor of makeApiRequest after its awaits: clearTimeout(timeoutId),
\* then resolve(text) or reject(error).
SettleCall(c, how) ==
    [promise |-> Settle(c.promise, how), timer |-> clearTimeout(c.timer),
     ext |-> "done"]

\* The callback of setTimeout: reject(new GeminiTimeoutError()).
TimerFires(c) ==
    [promise |-> Settle(c.promise, "timeout"), timer |-> "fired", ext |-> c.ext]

\* analyzeCode up to its first await: the precondition checks and, when they
\* pass, the first makeApiRequest (which calls model.generateContent and arms
\* the timer synchronously).
analyzeCode(code, language) ==
    /\ gpc = "idle"
    /\ gInput' = [code |-> code, language |-> language]
    /\ UNCHANGED <<client, lastError, delays, attemptLog, elapsed, abandoned>>
    /\ IF ~client
       THEN /\ gpc' = "thrown"
            /\ gOutcome' = Thrown(GeminiConfigError)
            /\ UNCHANGED <<attempt, extCalls, calls>>
       ELSE IF CodeMissing(code) \/ LanguageMissing(language) \/ CodeTooLong(code)
       THEN /\ gpc' = "thrown"
            /\ gOutcome' = Thrown(GeminiServiceError({}, NoError))
            /\ UNCHANGED <<attempt, extCalls, calls>>
       ELSE /\ attempt' = 1
            /\ extCalls' = extCalls + 1
            /\ calls' = Append(calls, NewCall)
            /\ gpc' = "awaiting"
            /\ UNCHANGED gOutcome

RetryableMutant(e) == e.name # "GeminiConfigError"

\* !(error instanceof GeminiConfigError || error instanceof GeminiParseError)
Retryable(e) == e.name \notin {"GeminiConfigError", "GeminiParseError"}

LastAttemptMutant(a) == a > maxRetries

\* attempt === this.maxRetries
LastAttempt(a) == a = maxRetries

\* The catch block of the retry loop, entered with the error of the attempt,
\* and the throw after the loop.
CatchAttempt(e) ==
    /\ lastError' = e
    /\ IF ~Retryable(e)
       THEN /\ gpc' = "thrown"
            /\ gOutcome' = Thrown(e)
       ELSE IF LastAttempt(attempt)
       THEN /\ gpc' = "thrown"
            /\ gOutcome' = Thrown(GeminiServiceError(e.kw, e))
       ELSE /\ gpc' = "backoff"
            /\ UNCHANGED gOutcome

\* How long the external model takes when it answers before the timer.
Latencies == {0, timeout - 1}

\* model.generateContent resolves before the timer: clearTimeout, resolve(text),
\* then parseResponse in analyzeCode.
ExternalResponds(text, d) ==
    /\ gpc = "awaiting"
    /\ elapsed' = elapsed + d
    /\ attemptLog' = Append(attemptLog, "text")
    /\ calls' = [calls EXCEPT ![attempt] = SettleCall(@, "text")]
    /\ LET r == parseResponse(text) IN
       IF r.ok
       THEN /\ gpc' = "returned"
            /\ gOutcome' = Returned(r.value)
            /\ UNCHANGED lastError
       ELSE CatchAttempt(r.error)
    /\ UNCHANGED <<client, gInput, attempt, extCalls, delays, abandoned>>
    /\ UNCHANGED <<storeVars, limiterVars, pipeVars, parseVars, clientVars, authVars,
                 manageVars>>

\* model.generateContent rejects before the timer: clearTimeout, reject(error).
ExternalFails(e, d) ==
    /\ gpc = "awaiting"
    /\ elapsed' = elapsed + d
    /\ attemptLog' = Append(attemptLog, "transport")
    /\ calls' = [calls EXCEPT ![attempt] = SettleCall(@, "transport")]
    /\ CatchAttempt(e)
    /\ UNCHANGED <<client, gInput, attempt, extCalls, delays, abandoned>>
    /\ UNCHANGED <<storeVars, limiterVars, pipeVars, parseVars, clientVars, authVars,
                 manageVars>>

\* The timer fires first: reject(new GeminiTimeoutError()).  The external call
\* is not cancelled; it keeps running.
TimeoutFires ==
    /\ gpc = "awaiting"
    /\ elapsed' = elapsed + timeout
    /\ attemptLog' = Append(attemptLog, "timeout")
    /\ abandoned' = abandoned + 1
    /\ calls' = [calls EXCEPT ![attempt] = TimerFires(@)]
    /\ CatchAttempt(GeminiTimeoutError)
    /\ UNCHANGED <<client, gInput, attempt, extCalls, delays>>
    /\ UNCHANGED <<storeVars, limiterVars, pipeVars, parseVars, clientVars, authVars,
                 manageVars>>

\* An abandoned external call settles after its attempt timed out: the rest
\* of the executor of its makeApiRequest runs, clearTimeout(timeoutId) and
\* resolve(text) or reject(error), on the timer and the promise of that call.
LateSettle ==
    /\ abandoned > 0
    /\ abandoned' = abandoned - 1
    /\ \E n \in DOMAIN calls, how \in {"text", "transport"} :
          /\ calls[n].ext = "running"
          /\ calls[n].timer = "fired"
          /\ calls' = [calls EXCEPT ![n] = SettleCall(@, how)]
    /\ UNCHANGED <<client, gpc, gInput, attempt, lastError, extCalls, delays,
                   attemptLog, elapsed, gOutcome>>
    /\ UNCHANGED <<storeVars, limiterVars, pipeVars, parseVars, clientVars, authVars,
                 manageVars>>

\* await this.delay(attempt) completes; the loop increments attempt and the
\* next makeApiRequest calls the model.
BackoffElapsed ==
    /\ gpc = "backoff"
    /\ delays' = Append(delays, delay(attempt))
    /\ elapsed' = elapsed + delay(attempt)
    /\ attempt' = attempt + 1
    /\ extCalls' = extCalls + 1
    /\ calls' = Append(calls, NewCall)
    /\ gpc' = "awaiting"
    /\ UNCHANGED <<client, gInput, lastError, attemptLog, abandoned, gOutcome>>
    /\ UNCHANGED <<storeVars, limiterVars, pipeVars, parseVars, clientVars, authVars,
                 manageVars>>

----------------------------------------------------------------------------
\* ReviewService (services/review.service.ts) over the reviews table, and the
\* GET /:id and DELETE /:id handlers that call it.

MaxReviews == 2

MaxPending == 2

Users == {"u1", "u2"}

\* req.user after authenticateToken: a user, or undefined when the user lookup
\* threw and only req.tokenPayload was attached.
NoUser == "undefined"

ReviewIds == 1 .. MaxReviews

MaxStoredCode == 512000

NotFoundError == Err("NotFoundError", {"not found"})

AuthorizationError == Err("AuthorizationError", {"permission"})

ValidationError == Err("ValidationError", {})

InternalServerError == Err("InternalServerError", {})

\* req.user!.id on an undefined req.user
TypeError == Err("TypeError", {})

\* .from('reviews').select(...).eq('id', reviewId).single(): the row, the
\* PGRST116 'no rows' error, or another error of the database.
SelectSingle(rows, reviewId, dbOk) ==
    IF ~dbOk THEN [error |-> "other", found |-> FALSE, user_id |-> "none"]
    ELSE IF \E r \in rows : r.id = reviewId
    THEN LET r == CHOOSE r \in rows : r.id = reviewId IN
         [error |-> "none", found |-> TRUE, user_id |-> r.user_id]
    ELSE [error |-> "PGRST116", found |-> FALSE, user_id |-> "none"]

NotOwnerMutant(row, userId) == FALSE

\* data.user_id !== userId
NotOwner(row, userId) == row.user_id # userId

\* The fetch and the ownership check that getReviewById and deleteReview
\* share: the error thrown, or NoError.
FetchAndCheck(rows, reviewId, userId, dbOk) ==
    LET q == SelectSingle(rows, reviewId, dbOk) IN
    IF q.error = "PGRST116" THEN NotFoundError
    ELSE IF q.error # "none" THEN InternalServerError
    ELSE IF NotOwner(q, userId) THEN AuthorizationError
    ELSE NoError

\* The catch blocks of GET /:id and DELETE /:id.
ReviewRouteStatus(e) ==
    IF e = NoError THEN 200
    ELSE IF "not found" \in e.kw \/ "Not found" \in e.kw THEN 404
    ELSE IF "permission" \in e.kw \/ "not have access" \in e.kw THEN 403
    ELSE 500

OwnerOf(rows, reviewId) ==
    IF \E r \in rows : r.id = reviewId
    THEN (CHOOSE r \in rows : r.id = reviewId).user_id
    ELSE "none"

\* The record kept of a completed operation: what was asked, by whom, the
\* owner of the row when the operation read the table, what was answered,
\* and the rows the operation removed.
Resp(op, reviewId, user, ownerAt, fetched, e, status, removedRows) ==
    [op |-> op, reviewId |-> reviewId, user |-> user, ownerAt |-> ownerAt,
     fetched |-> fetched, error |-> e.name, status |-> status,
     removed |-> removedRows]

NoResp == Resp("none", 0, NoUser, "none", FALSE, NoError, 0, {})

StoreIdle ==
    /\ reviews = {}
    /\ nextId = 1
    /\ pending = <<>>
    /\ storeResp = NoResp

\* createReview: the ValidationError or InternalServerError it throws, or
\* NoError with the row inserted.
createReviewError(userId, code, language, hasAnalysis, dbOk) ==
    IF userId = NoUser \/ CodeMissing(code) \/ LanguageMissing(language)
       \/ ~hasAnalysis
    THEN ValidationError
    ELSE IF code.len > MaxStoredCode THEN ValidationError
    ELSE IF ~dbOk THEN InternalServerError
    ELSE NoError

createReviewMutant(userId, code, language, hasAnalysis, dbOk) ==
    LET e == createReviewError(userId, code, language, hasAnalysis, dbOk) IN
    /\ IF e = NoError
       THEN /\ reviews' = reviews \cup {[id |-> nextId, user_id |-> "u2"]}
            /\ nextId' = nextId + 1
       ELSE UNCHANGED <<reviews, nextId>>
    /\ storeResp' = Resp("create", IF e = NoError THEN nextId ELSE 0, userId,
                         "none", FALSE, e, IF e = NoError THEN 200 ELSE 500, {})
    /\ UNCHANGED pending

createReview(userId, code, language, hasAnalysis, dbOk) ==
    LET e == createReviewError(userId, code, language, hasAnalysis, dbOk) IN
    /\ IF e = NoError
       THEN /\ reviews' = reviews \cup {[id |-> nextId, user_id |-> userId]}
            /\ nextId' = nextId + 1
       ELSE UNCHANGED <<reviews, nextId>>
    /\ storeResp' = Resp("create", IF e = NoError THEN nextId ELSE 0, userId,
                         "none", FALSE, e, IF e = NoError THEN 200 ELSE 500, {})
    /\ UNCHANGED pending

\* GET /:id after authenticateToken and the limiter: req.user!.id, then
\* getReviewById, then the response.
GetReview(reviewId, user, dbOk) ==
    LET e == IF user = NoUser THEN TypeError
             ELSE FetchAndCheck(reviews, reviewId, user, dbOk) IN
    /\ storeResp' = Resp("get", reviewId, user, OwnerOf(reviews, reviewId),
                         user # NoUser /\ dbOk, e, ReviewRouteStatus(e), {})
    /\ UNCHANGED <<reviews, nextId, pending>>
    /\ UNCHANGED <<invokerVars, limiterVars, pipeVars, parseVars, clientVars, authVars,
                 manageVars>>

\* DELETE /:id, first part: req.user!.id, then deleteReview up to its ownership
\* check.  A call that passes the check awaits its delete statement.
DeleteCheck(reviewId, user, dbOk) ==
    LET e == IF user = NoUser THEN TypeError
             ELSE FetchAndCheck(reviews, reviewId, user, dbOk) IN
    /\ IF e = NoError
       THEN /\ Len(pending) < MaxPending
            /\ pending' = Append(pending, [reviewId |-> reviewId, user |-> user,
                                           ownerAt |-> OwnerOf(reviews, reviewId)])
            /\ storeResp' = NoResp
       ELSE /\ storeResp' = Resp("delete", reviewId, user,
                                 OwnerOf(reviews, reviewId),
                                 user # NoUser /\ dbOk, e, ReviewRouteStatus(e), {})
            /\ UNCHANGED pending
    /\ UNCHANGED <<reviews, nextId>>
    /\ UNCHANGED <<invokerVars, limiterVars, pipeVars, parseVars, clientVars, authVars,
                 manageVars>>

DeleteFilterMutant(row, reviewId, userId) == row.id = reviewId

DeleteFilterOwnerMutant(row, reviewId, userId) == row.user_id = userId

\* .delete().eq('id', reviewId).eq('user_id', userId)
DeleteFilter(row, reviewId, userId) ==
    row.id = reviewId /\ row.user_id = userId

RemoveAt(seq, i) ==
    [j \in 1 .. (Len(seq) - 1) |-> IF j < i THEN seq[j] ELSE seq[j + 1]]

\* DELETE /:id, second part: the delete statement of a call that passed the
\* check, and the response.
DeleteExec(i, dbOk) ==
    /\ i \in 1 .. Len(pending)
    /\ LET p == pending[i]
           gone == IF dbOk
                   THEN {r \in reviews : DeleteFilter(r, p.reviewId, p.user)}
                   ELSE {}
           e == IF dbOk THEN NoError ELSE InternalServerError IN
       /\ reviews' = reviews \ gone
       /\ storeResp' = Resp("delete", p.reviewId, p.user, p.ownerAt, TRUE, e,
                            ReviewRouteStatus(e), gone)
    /\ pending' = RemoveAt(pending, i)
    /\ UNCHANGED nextId
    /\ UNCHANGED <<invokerVars, limiterVars, pipeVars, parseVars, clientVars, authVars,
                 manageVars>>

\* Another writer of the reviews table gives a row to another user.
RowReassigned ==
    /\ \E r \in reviews : \E u \in Users \ {r.user_id} :
          reviews' = (reviews \ {r}) \cup {[r EXCEPT !.user_id = u]}
    /\ storeResp' = NoResp
    /\ UNCHANGED <<nextId, pending>>
    /\ UNCHANGED <<invokerVars, limiterVars, pipeVars, parseVars, clientVars, authVars,
                 manageVars>>

----------------------------------------------------------------------------
\* The rate limiters (middleware/rateLimit.middleware.ts).  Each is an
\* express-rate-limit middleware; the options are those of the source, the
\* counter store is the fixed-window store of section 4.2.

Classes == {"auth", "anonymous", "authenticated"}

Ips == {"ip1", "ip2"}

UserKey(u) == IF u = "u1" THEN "user:u1" ELSE "user:u2"

LimKeys == Ips \cup {UserKey(u) : u \in Users}

authWindowMs == 60000

reviewWindowMs == 3600000

anonymousMax == 5

authenticatedMax == 30

authMax == 5

\* windowMs of each limiter
windowMs(c) == IF c = "auth" THEN authWindowMs ELSE reviewWindowMs

maxMutant(c) ==
    IF c = "auth" THEN authMax
    ELSE IF c = "anonymous" THEN anonymousMax + 1
    ELSE authenticatedMax

\* max of each limiter
max(c) ==
    IF c = "auth" THEN authMax
    ELSE IF c = "anonymous" THEN anonymousMax
    ELSE authenticatedMax

\* req.user || req.tokenPayload
HasUserOrToken(req) == req.user # NoUser \/ req.tokenPayload # NoUser

\* req.user?.id || req.tokenPayload?.userId
UserIdOf(req) == IF req.user # NoUser THEN req.user ELSE req.tokenPayload

keyGeneratorMutant(c, req) == req.ip

\* keyGenerator of each limiter
keyGenerator(c, req) ==
    IF c = "authenticated" /\ UserIdOf(req) # NoUser
    THEN UserKey(UserIdOf(req))
    ELSE req.ip

skipMutant(c, req) ==
    IF c = "auth" THEN req.path = "/health"
    ELSE IF c = "anonymous" THEN FALSE
    ELSE ~HasUserOrToken(req)

\* skip of each limiter
skip(c, req) ==
    IF c = "auth" THEN req.path = "/health"
    ELSE IF c = "anonymous" THEN HasUserOrToken(req)
    ELSE ~HasUserOrToken(req)

NoRecord == [count |-> 0, start |-> 0]

\* The store's increment: a key that is absent or whose window has elapsed
\* starts a fresh window with count 1, otherwise its count is incremented.
StoreIncrement(rec, t, w) ==
    IF rec.count = 0 \/ t - rec.start >= w
    THEN [count |-> 1, start |-> t]
    ELSE [count |-> rec.count + 1, start |-> rec.start]

AdmitMutant(totalHits, limit) == totalHits <= limit + 1

\* The middleware's decision: the handler runs when totalHits > limit.
Admit(totalHits, limit) == totalHits <= limit

\* Math.ceil(resetTime / 1000 - Date.now() / 1000)
RetryAfter(resetTime, t) ==
    LET d == resetTime - t IN
    IF d >= 0 THEN (d + 999) \div 1000 ELSE -((-d) \div 1000)

\* Section 4.2: the policy of each class and who a request is counted for
\* (the caller's address, or the identity id for the authenticated class).
SpecWindowMs(c) == IF c = "auth" THEN 60000 ELSE 3600000

SpecLimit(c) ==
    IF c = "auth" THEN 5 ELSE IF c = "anonymous" THEN 5 ELSE 30

Callers == Ips \cup Users

SpecCaller(c, req) == IF c = "authenticated" THEN UserIdOf(req) ELSE req.ip

NoWindow == [n |-> 0, start |-> 0, prevFull |-> FALSE, admitted |-> 0]

SpecStep(win, t, c) ==
    IF win.n = 0 \/ t - win.start >= SpecWindowMs(c)
    THEN [n |-> 1, start |-> t, prevFull |-> win.n > SpecLimit(c), admitted |-> 0]
    ELSE [win EXCEPT !.n = win.n + 1]

MaxOver == 2

MaxInflight == 2

MaxLag == 1

MaxOther == 1

MaxTicks == 2

\* The callers that send any number of requests; the others send at most
\* MaxOther per window.
BusyCallers == {"ip1", "u1"}

\* Where the n-th check of a window stands against the limit of section 4.2.
Pos(n, c) ==
    IF n = 1 THEN "first"
    ELSE IF n <= SpecLimit(c) THEN "within"
    ELSE IF n = SpecLimit(c) + 1 THEN "next"
    ELSE "beyond"

NoDecision ==
    [kind |-> "none", class |-> "none", pos |-> "none", prevFull |-> FALSE,
     status |-> 0, retryAfter |-> 0]

LimiterIdle ==
    /\ now = 0
    /\ hits = [c \in Classes |-> [k \in LimKeys |-> NoRecord]]
    /\ inflight = {}
    /\ lastDecision = NoDecision
    /\ seen = [c \in Classes |-> [k \in Callers |-> NoWindow]]

\* The requests the model follows through limiter c: those that stay within
\* MaxOver of the limit and within MaxOther for the callers that are not busy.
WithinBounds(c, req) ==
    LET k == keyGenerator(c, req)
        rec == StoreIncrement(hits[c][k], now, windowMs(c))
        who == SpecCaller(c, req)
        win == SpecStep(seen[c][who], now, c) IN
    /\ rec.count <= max(c) + MaxOver
    /\ win.n <= SpecLimit(c) + MaxOver
    /\ who \notin BusyCallers => win.n <= MaxOther

\* The middleware of limiter c up to its await of store.increment: skip,
\* keyGenerator, increment.
LimiterCheck(c, req) ==
    /\ ~skip(c, req)
    /\ Cardinality(inflight) < MaxInflight
    /\ \A e \in inflight : e.age < MaxLag
    /\ LET k == keyGenerator(c, req)
           rec == StoreIncrement(hits[c][k], now, windowMs(c))
           who == SpecCaller(c, req)
           win == SpecStep(seen[c][who], now, c) IN
       /\ rec.count <= max(c) + MaxOver
       /\ win.n <= SpecLimit(c) + MaxOver
       /\ who \notin BusyCallers => win.n <= MaxOther
       /\ hits' = [hits EXCEPT ![c][k] = rec]
       /\ seen' = [seen EXCEPT ![c][who] = win]
       /\ inflight' = {[e EXCEPT !.age = @ + 1] : e \in inflight} \cup
             {[class |-> c, caller |-> who, totalHits |-> rec.count,
               resetTime |-> rec.start + windowMs(c), n |-> win.n,
               start |-> win.start, prevFull |-> win.prevFull, age |-> 0]}
    /\ lastDecision' = NoDecision
    /\ UNCHANGED now

\* The middleware of limiter c for a request it skips: next().
LimiterSkip(c, req) ==
    /\ skip(c, req)
    /\ lastDecision' = [NoDecision EXCEPT !.kind = "skipped", !.class = c]
    /\ UNCHANGED <<now, hits, inflight, seen>>

\* The middleware after the increment: next(), or the limiter's handler with
\* its 429 response.
LimiterDecide(e) ==
    /\ e \in inflight
    /\ LET ok == Admit(e.totalHits, max(e.class))
           win == seen[e.class][e.caller] IN
       /\ lastDecision' =
             [kind |-> IF ok THEN "admitted" ELSE "rejected",
              class |-> e.class, pos |-> Pos(e.n, e.class),
              prevFull |-> e.prevFull,
              status |-> IF ok THEN 0 ELSE 429,
              retryAfter |-> IF ok THEN 0 ELSE RetryAfter(e.resetTime, now)]
       /\ seen' = IF ok /\ win.start = e.start /\ win.n >= e.n
                  THEN [seen EXCEPT ![e.class][e.caller].admitted = @ + 1]
                  ELSE seen
    /\ inflight' = inflight \ {e}
    /\ UNCHANGED <<now, hits>>

\* Time passes: half a window of limiter c.
Tick(c) ==
    /\ now < MaxTicks * (windowMs(c) \div 2)
    /\ now' = now + windowMs(c) \div 2
    /\ lastDecision' = NoDecision
    /\ UNCHANGED <<hits, inflight, seen>>

----------------------------------------------------------------------------
\* optionalAuth (middleware/auth.middleware.ts)

Headers ==
    { [scheme |-> "none", token |-> "none"],
      [scheme |-> "Basic", token |-> "bad"],
      [scheme |-> "Bearer", token |-> "bad"] } \cup
    { [scheme |-> "Bearer", token |-> u] : u \in Users }

\* extractTokenFromHeader: the token of a "Bearer <token>" header, or null
extractTokenFromHeader(header) ==
    IF header.scheme = "Bearer" THEN header.token ELSE "null"

\* authService.verifyToken: the userId of the payload, or NoUser when it throws
verifyToken(token) == IF token \in Users THEN token ELSE NoUser

\* authService.getUserById: the user, null, or a thrown error
Lookups == {"found", "null", "error"}

\* What optionalAuth attaches to the request before next().
optionalAuth(header, lookup) ==
    LET token == extractTokenFromHeader(header)
        userId == verifyToken(token) IN
    IF token = "null" \/ userId = NoUser
    THEN [user |-> NoUser, tokenPayload |-> NoUser]
    ELSE IF lookup = "found" THEN [user |-> userId, tokenPayload |-> userId]
    ELSE IF lookup = "null" THEN [user |-> NoUser, tokenPayload |-> NoUser]
    ELSE [user |-> NoUser, tokenPayload |-> userId]

----------------------------------------------------------------------------
\* POST /analyze and POST /upload (routes/review.routes.ts)

\* /^[a-zA-Z0-9+#-]+$/ over the language texts of the model
LanguagePattern == {"sql"}

\* codeAnalysisValidation and validateRequest on the body of /analyze
ValidBody(req) ==
    /\ req.code.str
    /\ req.code.len > 0
    /\ req.code.len <= MaxStoredCode
    /\ req.language.str
    /\ req.language.text # ""
    /\ req.language.text \in LanguagePattern

\* The upload middleware (multer with its limits and fileFilter) and the
\* checks of the /upload handler before it calls analyzeCode: the status of
\* the error response, or 0.
UploadRejection(req) ==
    IF req.file = "huge" THEN 413
    ELSE IF req.file = "badext" THEN 400
    ELSE IF req.file = "none" THEN 400
    ELSE IF req.code.len = 0 THEN 400
    ELSE IF req.code.len > MaxStoredCode THEN 400
    ELSE 0

\* The status of the error response of a request that does not reach
\* analyzeCode, or 0.
Rejection(req) ==
    IF req.route = "upload" THEN UploadRejection(req)
    ELSE IF ValidBody(req) THEN 0 ELSE 400

\* The outer catch block of the /analyze and /upload handlers.
AnalyzeRouteStatus(e) ==
    IF "timeout" \in e.kw \/ "network" \in e.kw THEN 503
    ELSE IF "validation" \in e.kw \/ "invalid" \in e.kw THEN 400
    ELSE IF "rate limit" \in e.kw THEN 429
    ELSE 500

ErrorResponse(status) ==
    [status |-> status, hasAnalysis |-> FALSE, analysis |-> EmptyAnalysis,
     reviewId |-> 0, saved |-> FALSE]

NoResponse == ErrorResponse(0)

AnalyzeResponseMutant(analysis, saveError, id) ==
    IF saveError # NoError THEN ErrorResponse(AnalyzeRouteStatus(saveError))
    ELSE [status |-> 200, hasAnalysis |-> TRUE, analysis |-> analysis,
          reviewId |-> id, saved |-> id # 0]

\* The inner try/catch around createReview and res.json: reviewId stays
\* undefined (0) when createReview threw or was not called.
AnalyzeResponse(analysis, saveError, id) ==
    LET reviewId == IF saveError = NoError THEN id ELSE 0 IN
    [status |-> 200, hasAnalysis |-> TRUE, analysis |-> analysis,
     reviewId |-> reviewId, saved |-> reviewId # 0]

UserIdForSaveMutant(req) == UserIdOf(req)

\* const userId = req.user?.id
UserIdForSave(req) == req.user

NoRequest ==
    [route |-> "none", ip |-> "none",
     header |-> [scheme |-> "none", token |-> "none"],
     user |-> NoUser, tokenPayload |-> NoUser, path |-> "none",
     code |-> NoInput.code, language |-> NoInput.language, file |-> "none"]

NoLog == [aiCalls |-> 0, saveCalls |-> 0, saveError |-> "none"]

PipeIdle ==
    /\ ppc = "idle"
    /\ preq = NoRequest
    /\ presp = NoResponse
    /\ plog = NoLog

\* A request arrives and optionalAuth runs.
Arrive(req, lookup) ==
    /\ ppc = "idle"
    /\ LET a == optionalAuth(req.header, lookup) IN
       preq' = [req EXCEPT !.user = a.user, !.tokenPayload = a.tokenPayload]
    /\ ppc' = "limiter"
    /\ UNCHANGED <<presp, plog>>
    /\ UNCHANGED <<invokerVars, storeVars, now, hits, inflight, lastDecision>>
    /\ UNCHANGED <<parseVars, clientVars, authVars, manageVars>>

\* The request is over.  The records kept of it (its analyzeCode call, its
\* store operation, its limiter decision) are dropped.
PipeFinish ==
    /\ ppc = "responded"
    /\ ppc' = "idle"
    /\ preq' = NoRequest
    /\ presp' = NoResponse
    /\ plog' = NoLog
    /\ gpc' = "idle"
    /\ gInput' = NoInput
    /\ attempt' = 0
    /\ lastError' = NoError
    /\ extCalls' = 0
    /\ delays' = <<>>
    /\ attemptLog' = <<>>
    /\ elapsed' = 0
    /\ abandoned' = 0
    /\ calls' = <<>>
    /\ gOutcome' = NoOutcome
    /\ storeResp' = NoResp
    /\ lastDecision' = NoDecision
    /\ UNCHANGED <<client, reviews, nextId, pending, now, hits, inflight, seen>>
    /\ UNCHANGED <<parseVars, clientVars, authVars, manageVars>>

\* anonymousReviewLimiter skips the request.
PipeSkip ==
    /\ ppc = "limiter"
    /\ LimiterSkip("anonymous", preq)
    /\ ppc' = "handler"
    /\ UNCHANGED <<preq, presp, plog>>
    /\ UNCHANGED <<invokerVars, storeVars, parseVars, clientVars, authVars,
                 manageVars>>

\* anonymousReviewLimiter counts the request.
PipeCheck ==
    /\ ppc = "limiter"
    /\ LimiterCheck("anonymous", preq)
    /\ ppc' = "limiting"
    /\ UNCHANGED <<preq, presp, plog>>
    /\ UNCHANGED <<invokerVars, storeVars, parseVars, clientVars, authVars,
                 manageVars>>

PipeDecideMutant ==
    /\ ppc = "limiting"
    /\ \E e \in inflight : LimiterDecide(e)
    /\ ppc' = "handler"
    /\ UNCHANGED <<preq, presp, plog>>
    /\ UNCHANGED <<invokerVars, storeVars, parseVars, clientVars, authVars, manageVars>>

\* anonymousReviewLimiter decides: next(), or its 429 response.
PipeDecide ==
    /\ ppc = "limiting"
    /\ \E e \in inflight : LimiterDecide(e)
    /\ IF lastDecision'.kind = "admitted"
       THEN /\ ppc' = "handler"
            /\ UNCHANGED presp
       ELSE /\ ppc' = "responded"
            /\ presp' = ErrorResponse(lastDecision'.status)
    /\ UNCHANGED <<preq, plog>>
    /\ UNCHANGED <<invokerVars, storeVars, parseVars, clientVars, authVars,
                 manageVars>>

\* The validation (or upload) middleware and the handler up to its await of
\* geminiService.analyzeCode.
PipeHandle ==
    /\ ppc = "handler"
    /\ IF Rejection(preq) # 0
       THEN /\ ppc' = "responded"
            /\ presp' = ErrorResponse(Rejection(preq))
            /\ UNCHANGED <<plog, invokerVars>>
       ELSE /\ analyzeCode(preq.code, preq.language)
            /\ ppc' = "analyzing"
            /\ plog' = [plog EXCEPT !.aiCalls = @ + 1]
            /\ UNCHANGED presp
    /\ UNCHANGED preq
    /\ UNCHANGED <<storeVars, limiterVars, parseVars, clientVars, authVars,
                 manageVars>>

\* analyzeCode threw: the outer catch block.
PipeCatch ==
    /\ ppc = "analyzing"
    /\ gpc = "thrown"
    /\ ppc' = "responded"
    /\ presp' = ErrorResponse(AnalyzeRouteStatus(gOutcome.error))
    /\ UNCHANGED <<preq, plog>>
    /\ UNCHANGED <<invokerVars, storeVars, limiterVars, parseVars, clientVars, authVars,
                 manageVars>>

\* analyzeCode returned: createReview when there is a userId, then res.json.
PipeSave(dbOk) ==
    /\ ppc = "analyzing"
    /\ gpc = "returned"
    /\ ppc' = "responded"
    /\ LET userId == UserIdForSave(preq) IN
       IF userId # NoUser
       THEN LET e == createReviewError(userId, preq.code, preq.language,
                                       TRUE, dbOk) IN
            /\ createReview(userId, preq.code, preq.language, TRUE, dbOk)
            /\ plog' = [plog EXCEPT !.saveCalls = @ + 1, !.saveError = e.name]
            /\ presp' = AnalyzeResponse(gOutcome.value, e, nextId)
       ELSE /\ presp' = AnalyzeResponse(gOutcome.value, NoError, 0)
            /\ UNCHANGED <<plog, storeVars>>
    /\ UNCHANGED preq
    /\ UNCHANGED <<invokerVars, limiterVars, parseVars, clientVars, authVars,
                 manageVars>>

----------------------------------------------------------------------------
\* authenticateToken and the user directory (middleware/auth.middleware.ts,
\* services/auth.service.ts)

\* The Authorization headers of the model, with an expired token among them.
AuthHeaders == Headers \cup {[scheme |-> "Bearer", token |-> "expired"]}

\* The message of the error verifyToken throws for a token that is no user's.
verifyTokenMessage(token) ==
    IF token = "expired" THEN "Token has expired" ELSE "Invalid token"

\* authService.getUserById over the user directory: the user, null when
\* findUserById finds no row (PGRST116), or the error of the database.
getUserById(userId, dbOk) ==
    IF ~dbOk THEN "error"
    ELSE IF userId \in directory THEN "found"
    ELSE "null"

\* What a middleware did with a request: the response it sent (status 0 when
\* it sent none), whether it called next(), and what it attached.
AuthOutcome(status, message, next, user, tokenPayload) ==
    [status |-> status, message |-> message, next |-> next, user |-> user,
     tokenPayload |-> tokenPayload]

\* optionalAuth: every path ends in next(), none sends a response.
optionalAuthOutcome(header, lookup) ==
    LET a == optionalAuth(header, lookup) IN
    AuthOutcome(0, "", TRUE, a.user, a.tokenPayload)

\* authenticateToken
authenticateToken(header, lookup) ==
    LET token == extractTokenFromHeader(header)
        userId == verifyToken(token) IN
    IF token = "null"
    THEN AuthOutcome(401, "No token provided in Authorization header", FALSE,
                     NoUser, NoUser)
    ELSE IF userId = NoUser
    THEN AuthOutcome(401, verifyTokenMessage(token), FALSE, NoUser, NoUser)
    ELSE IF lookup = "null"
    THEN AuthOutcome(401, "User not found", FALSE, NoUser, NoUser)
    ELSE IF lookup = "found"
    THEN AuthOutcome(0, "", TRUE, userId, userId)
    ELSE AuthOutcome(0, "", TRUE, NoUser, userId)

\* The lookup a middleware makes for a header: none when it returns before.
LookupFor(header, dbOk) ==
    LET userId == verifyToken(extractTokenFromHeader(header)) IN
    IF userId = NoUser THEN "none" ELSE getUserById(userId, dbOk)

AuthRecord(mode, ip, header, lookup, outcome) ==
    [mode |-> mode, ip |-> ip, header |-> header, lookup |-> lookup,
     outcome |-> outcome]

NoAuth ==
    AuthRecord("none", "none", [scheme |-> "none", token |-> "none"], "none",
               AuthOutcome(0, "", FALSE, NoUser, NoUser))

AuthIdle ==
    /\ directory = Users
    /\ areq = NoAuth

\* The client auth store before any action (client store/authStore.ts).

\* null, for state.user, state.token and a missing localStorage item.
Null == "null"

\* The store actions that may be suspended at their await at one time.
MaxAwaiting == 2

\* user: null, token: null, isAuthenticated: false, isLoading: false
ClientIdle ==
    /\ stateUser = Null
    /\ stateToken = Null
    /\ isAuthenticated = FALSE
    /\ isLoading = FALSE
    /\ authToken = Null
    /\ awaiting = <<>>

\* optionalAuth handles a request.
AuthOptional(ip, header, dbOk) ==
    /\ areq = NoAuth
    /\ LET lookup == LookupFor(header, dbOk) IN
       areq' = AuthRecord("optional", ip, header, lookup,
                          optionalAuthOutcome(header, lookup))
    /\ UNCHANGED directory

\* authenticateToken handles a request.
AuthRequired(ip, header, dbOk) ==
    /\ areq = NoAuth
    /\ LET lookup == LookupFor(header, dbOk) IN
       areq' = AuthRecord("required", ip, header, lookup,
                          authenticateToken(header, lookup))
    /\ UNCHANGED directory

\* The request leaves the middleware.
AuthFinish ==
    /\ areq # NoAuth
    /\ areq' = NoAuth
    /\ UNCHANGED directory

\* The user directory loses a user (an account is deleted).
UserRemoved(u) ==
    /\ areq = NoAuth
    /\ u \in directory
    /\ directory' = directory \ {u}
    /\ UNCHANGED areq

----------------------------------------------------------------------------
\* The review-management routes: GET /, GET /search, GET /stats, GET /:id and
\* DELETE /:id (routes/review.routes.ts), each behind authenticateToken and
\* authenticatedReviewLimiter, and the ReviewService reads they call.

EqUserIdMutant(row, userId) == TRUE

\* .eq('user_id', userId)
EqUserId(row, userId) == row.user_id = userId

\* The newest of a set of rows: the table generates increasing ids, so the
\* order of created_at is the order of id.
Newest(rows) == CHOOSE r \in rows : \A s \in rows : s.id <= r.id

RECURSIVE OrderDesc(_)
\* .order('created_at', { ascending: false })
OrderDesc(rows) ==
    IF rows = {} THEN <<>>
    ELSE <<Newest(rows)>> \o OrderDesc(rows \ {Newest(rows)})

\* .range(offset, offset + limit - 1)
Range(seq, offset, limit) ==
    SubSeq(seq, offset + 1,
           IF offset + limit < Len(seq) THEN offset + limit ELSE Len(seq))

\* if (page < 1) page = 1
PageOrFirst(page) == IF page < 1 THEN 1 ELSE page

\* if (limit < 1 || limit > 100) limit = 20
LimitOrDefault(limit) == IF limit < 1 \/ limit > 100 THEN 20 ELSE limit

\* What a read of the service returns or throws.
ReadResult(e, rows, total) == [error |-> e, rows |-> rows, total |-> total]

\* getUserReviews.  The rows a language filter keeps are given (matching):
\* the rows of the model carry no language.  The order is that of the default
\* sort field.
getUserReviews(rows, userId, page, limit, filtered, matching, dbOk) ==
    LET sel == {r \in rows : EqUserId(r, userId) /\ (filtered => r \in matching)}
        l == LimitOrDefault(limit)
        offset == (PageOrFirst(page) - 1) * l IN
    IF userId = NoUser THEN ReadResult(ValidationError, <<>>, 0)
    ELSE IF ~dbOk THEN ReadResult(InternalServerError, <<>>, 0)
    ELSE ReadResult(NoError, Range(OrderDesc(sel), offset, l), Cardinality(sel))

\* searchReviews.  The rows whose file name or code the query matches are
\* given (matching): the rows of the model carry neither.
searchReviews(rows, userId, query, page, limit, matching, dbOk) ==
    LET sel == {r \in rows : EqUserId(r, userId) /\ r \in matching}
        l == LimitOrDefault(limit)
        offset == (PageOrFirst(page) - 1) * l IN
    IF userId = NoUser \/ query = "" THEN ReadResult(ValidationError, <<>>, 0)
    ELSE IF ~dbOk THEN ReadResult(InternalServerError, <<>>, 0)
    ELSE ReadResult(NoError, Range(OrderDesc(sel), offset, l), Cardinality(sel))

\* getUserStats: totalReviews and recentActivity (the last 10 reviews).
getUserStats(rows, userId, dbOk) ==
    LET sel == {r \in rows : EqUserId(r, userId)} IN
    IF userId = NoUser THEN ReadResult(ValidationError, <<>>, 0)
    ELSE IF ~dbOk THEN ReadResult(InternalServerError, <<>>, 0)
    ELSE ReadResult(NoError, Range(OrderDesc(sel), 0, 10), Cardinality(sel))

\* What a handler did: the status of its response, the rows and the total it
\* returned, the rows it removed from the table, the number of statements it
\* sent to the database, and the owner it called the service for.
Handled(status, rows, total, removed, storeOps, owner) ==
    [status |-> status, rows |-> rows, total |-> total, removed |-> removed,
     storeOps |-> storeOps, owner |-> owner]

\* A read handler after its service call: any error is answered 500.
ReadHandled(r, owner) ==
    Handled(IF r.error = NoError THEN 200 ELSE 500, r.rows, r.total, {},
            IF r.error = ValidationError THEN 0 ELSE 1, owner)

\* The handler of each management route, from req.user!.id to its response.
ManageHandler(req, rows, matching, dbOk) ==
    LET userId == req.user IN
    IF userId = NoUser THEN Handled(500, <<>>, 0, {}, 0, NoUser)
    ELSE IF req.route = "stats"
    THEN ReadHandled(getUserStats(rows, userId, dbOk), userId)
    ELSE IF req.route = "search"
    THEN IF req.q = "" THEN Handled(400, <<>>, 0, {}, 0, NoUser)
         ELSE ReadHandled(searchReviews(rows, userId, req.q, req.page, req.limit,
                                        matching, dbOk), userId)
    ELSE IF req.route = "list"
    THEN IF req.page < 1 \/ req.limit < 1 \/ req.limit > 100
         THEN Handled(400, <<>>, 0, {}, 0, NoUser)
         ELSE ReadHandled(getUserReviews(rows, userId, req.page, req.limit,
                                         req.language # "none", matching, dbOk),
                          userId)
    ELSE LET e == FetchAndCheck(rows, req.id, userId, dbOk)
             hit == {r \in rows : r.id = req.id} IN
         IF req.route = "get"
         THEN Handled(ReviewRouteStatus(e),
                      IF e = NoError THEN OrderDesc(hit) ELSE <<>>,
                      0, {}, 1, userId)
         ELSE Handled(ReviewRouteStatus(e), <<>>, 0,
                      IF e = NoError
                      THEN {r \in rows : DeleteFilter(r, req.id, userId)}
                      ELSE {},
                      IF e = NoError THEN 2 ELSE 1, userId)

ManageRoutes == {"list", "search", "stats", "get", "delete"}

NoManageRequest ==
    [route |-> "none", ip |-> "none",
     header |-> [scheme |-> "none", token |-> "none"],
     user |-> NoUser, tokenPayload |-> NoUser, path |-> "none", id |-> 0,
     page |-> 0, limit |-> 0, q |-> "", language |-> "none"]

ManageRequest(route, ip, header, id, page, limit, q, language) ==
    [NoManageRequest EXCEPT !.route = route, !.ip = ip, !.header = header,
                            !.path = route, !.id = id, !.page = page,
                            !.limit = limit, !.q = q, !.language = language]

NoManageResponse ==
    [status |-> 0, message |-> "", rows |-> <<>>, total |-> 0, removed |-> {}]

NoManageLog == [limiterChecks |-> 0, storeOps |-> 0, owner |-> NoUser]

ManageIdle ==
    /\ mpc = "idle"
    /\ mreq = NoManageRequest
    /\ mresp = NoManageResponse
    /\ mlog = NoManageLog

\* A request arrives and authenticateToken runs: its 401, or next().
ManageArrive(req, dbOk) ==
    /\ mpc = "idle"
    /\ LET a == authenticateToken(req.header, LookupFor(req.header, dbOk)) IN
       IF a.next
       THEN /\ mreq' = [req EXCEPT !.user = a.user, !.tokenPayload = a.tokenPayload]
            /\ mpc' = "limiter"
            /\ UNCHANGED mresp
       ELSE /\ mreq' = req
            /\ mpc' = "responded"
            /\ mresp' = [NoManageResponse EXCEPT !.status = a.status,
                                                 !.message = a.message]
    /\ storeResp' = NoResp
    /\ lastDecision' = NoDecision
    /\ UNCHANGED <<mlog, reviews, nextId, pending, now, hits, inflight, seen>>

MaxServed == 2

\* authenticatedReviewLimiter counts the request.  (Its skip is never taken
\* here: authenticateToken attaches req.tokenPayload to every request it
\* passes on.)  Of a window that starts empty the first MaxServed requests
\* are followed.
ManageCheck ==
    /\ mpc = "limiter"
    /\ LET c == "authenticated"
           n == hits[c][keyGenerator(c, mreq)].count IN
       n < MaxServed \/ n >= max(c)
    /\ LimiterCheck("authenticated", mreq)
    /\ mpc' = "limiting"
    /\ mlog' = [mlog EXCEPT !.limiterChecks = @ + 1]
    /\ storeResp' = NoResp
    /\ UNCHANGED <<mreq, mresp, reviews, nextId, pending>>

\* authenticatedReviewLimiter decides: next(), or its 429 response.
ManageDecide ==
    /\ mpc = "limiting"
    /\ \E e \in inflight : LimiterDecide(e)
    /\ IF lastDecision'.kind = "admitted"
       THEN /\ mpc' = "handler"
            /\ UNCHANGED mresp
       ELSE /\ mpc' = "responded"
            /\ mresp' = [NoManageResponse EXCEPT !.status = lastDecision'.status]
    /\ storeResp' = NoResp
    /\ UNCHANGED <<mreq, mlog, reviews, nextId, pending>>

\* The handler of the route runs and answers.
ManageHandle(matching, dbOk) ==
    /\ mpc = "handler"
    /\ LET h == ManageHandler(mreq, reviews, matching, dbOk) IN
       /\ mresp' = [NoManageResponse EXCEPT !.status = h.status, !.rows = h.rows,
                                            !.total = h.total,
                                            !.removed = h.removed]
       /\ mlog' = [mlog EXCEPT !.storeOps = h.storeOps, !.owner = h.owner]
       /\ reviews' = reviews \ h.removed
    /\ mpc' = "responded"
    /\ storeResp' = NoResp
    /\ lastDecision' = NoDecision
    /\ UNCHANGED <<mreq, nextId, pending, now, hits, inflight, seen>>

\* The request is over.
ManageFinish ==
    /\ mpc = "responded"
    /\ mpc' = "idle"
    /\ mreq' = NoManageRequest
    /\ mresp' = NoManageResponse
    /\ mlog' = NoManageLog
    /\ storeResp' = NoResp
    /\ lastDecision' = NoDecision
    /\ UNCHANGED <<reviews, nextId, pending, now, hits, inflight, seen>>

----------------------------------------------------------------------------
\* SpecInvoker: one analyzeCode call against every behaviour of the model.

InitInvoker ==
    /\ PipeIdle
    /\ ParseIdle
    /\ AuthIdle
    /\ ClientIdle
    /\ ManageIdle
    /\ client \in BOOLEAN
    /\ InvokerIdle
    /\ StoreIdle
    /\ LimiterIdle

CallAnalyzeCode ==
    /\ \E code \in Codes, language \in Languages : analyzeCode(code, language)
    /\ UNCHANGED <<storeVars, limiterVars, pipeVars, parseVars, clientVars, authVars,
                 manageVars>>

Responds == \E text \in ResponseTexts, d \in Latencies : ExternalResponds(text, d)

Fails == \E e \in TransportErrors, d \in Latencies : ExternalFails(e, d)

NextInvoker ==
    \/ CallAnalyzeCode
    \/ Responds
    \/ Fails
    \/ TimeoutFires
    \/ LateSettle
    \/ BackoffElapsed

SpecInvoker == InitInvoker /\ [][NextInvoker]_vars

----------------------------------------------------------------------------
\* SpecStore: concurrent calls of the review service on one table.
\* SpecStoreRace: the same, with another writer on the table.

StoreCodes == {[str |-> TRUE, len |-> 1], [str |-> TRUE, len |-> MaxStoredCode + 1]}

InitStore ==
    /\ PipeIdle
    /\ ParseIdle
    /\ AuthIdle
    /\ ClientIdle
    /\ ManageIdle
    /\ client = TRUE
    /\ InvokerIdle
    /\ StoreIdle
    /\ LimiterIdle

StoreCreate ==
    /\ nextId <= MaxReviews
    /\ \E u \in Users, code \in StoreCodes, dbOk \in BOOLEAN :
          createReview(u, code, [str |-> TRUE, text |-> "sql"], TRUE, dbOk)
    /\ UNCHANGED <<invokerVars, limiterVars, pipeVars, parseVars, clientVars, authVars,
                 manageVars>>

StoreGet ==
    \E id \in ReviewIds, u \in Users \cup {NoUser}, dbOk \in BOOLEAN :
        GetReview(id, u, dbOk)

StoreDeleteCheck ==
    \E id \in ReviewIds, u \in Users \cup {NoUser}, dbOk \in BOOLEAN :
        DeleteCheck(id, u, dbOk)

StoreDeleteExec ==
    \E i \in 1 .. MaxPending, dbOk \in BOOLEAN : DeleteExec(i, dbOk)

NextStore ==
    \/ StoreCreate
    \/ StoreGet
    \/ StoreDeleteCheck
    \/ StoreDeleteExec

SpecStore == InitStore /\ [][NextStore]_vars

NextStoreRace ==
    \/ StoreCreate
    \/ StoreDeleteCheck
    \/ StoreDeleteExec
    \/ RowReassigned

SpecStoreRace == InitStore /\ [][NextStoreRace]_vars

----------------------------------------------------------------------------
\* SpecLimiter: concurrent requests through one limiter.

\* Requests as the limiters read them; the path matters to authLimiter only.
LimiterRequests ==
    { [ip |-> ip, user |-> u, tokenPayload |-> t, path |-> "/login"] :
        ip \in Ips, u \in Users \cup {NoUser}, t \in Users \cup {NoUser} } \cup
    { [ip |-> "ip1", user |-> NoUser, tokenPayload |-> NoUser, path |-> "/health"] }

\* A request as a limiter can see it: a user is attached only together with
\* the token payload it was looked up from.
WellFormedRequest(req) == req.user # NoUser => req.tokenPayload = req.user

InitLimiter ==
    /\ PipeIdle
    /\ ParseIdle
    /\ AuthIdle
    /\ ClientIdle
    /\ ManageIdle
    /\ client = TRUE
    /\ InvokerIdle
    /\ StoreIdle
    /\ LimiterIdle

\* A key is in the interior of its window when its count is more than MaxOver
\* away from both ends.  There the requests of the key come one at a time and
\* no time passes: concurrency and the expiry of a window are explored within
\* MaxOver of the start of a window and of its limit.
Interior(c, k) ==
    /\ hits[c][k].count > MaxOver
    /\ hits[c][k].count < max(c) - MaxOver

LimCheck ==
    /\ \E c \in Classes, req \in LimiterRequests :
          /\ \A d \in Classes \ {c} : \A k \in LimKeys : hits[d][k] = NoRecord
          /\ WellFormedRequest(req)
          /\ Interior(c, keyGenerator(c, req)) => inflight = {}
          /\ LimiterCheck(c, req)
    /\ UNCHANGED <<invokerVars, storeVars, pipeVars, parseVars, clientVars, authVars,
                 manageVars>>

LimSkip ==
    /\ \E c \in Classes, req \in LimiterRequests :
          /\ \A d \in Classes \ {c} : \A k \in LimKeys : hits[d][k] = NoRecord
          /\ WellFormedRequest(req)
          /\ LimiterSkip(c, req)
    /\ UNCHANGED <<invokerVars, storeVars, pipeVars, parseVars, clientVars, authVars,
                 manageVars>>

LimDecide ==
    /\ \E e \in inflight : LimiterDecide(e)
    /\ UNCHANGED <<invokerVars, storeVars, pipeVars, parseVars, clientVars, authVars,
                 manageVars>>

LimTick ==
    /\ \E c \in Classes :
          /\ \E k \in LimKeys : hits[c][k] # NoRecord
          /\ \A k \in LimKeys : ~Interior(c, k)
          /\ Tick(c)
    /\ UNCHANGED <<invokerVars, storeVars, pipeVars, parseVars, clientVars, authVars,
                 manageVars>>

NextLimiter ==
    \/ LimCheck
    \/ LimSkip
    \/ LimDecide
    \/ LimTick

SpecLimiter == InitLimiter /\ [][NextLimiter]_vars

----------------------------------------------------------------------------
\* Spec: requests through POST /analyze and POST /upload, one at a time.

PipeCodes ==
    { [str |-> TRUE, len |-> n] :
        n \in {0, 1, MaxCodeLength + 1, MaxStoredCode + 1} }

PipeLanguages ==
    { [str |-> TRUE, text |-> "sql"], [str |-> TRUE, text |-> ""],
      [str |-> TRUE, text |-> "c lang"] }

UploadedFile == [str |-> TRUE, text |-> "sql"]

Bodies ==
    { [route |-> "analyze", code |-> c, language |-> l, file |-> "none"] :
        c \in PipeCodes, l \in PipeLanguages } \cup
    { [route |-> "upload", code |-> c, language |-> UploadedFile, file |-> "ok"] :
        c \in PipeCodes } \cup
    { [route |-> "upload", code |-> NoInput.code, language |-> UploadedFile,
       file |-> f] : f \in {"none", "huge", "badext"} }

\* Who sends: ip1 without credentials, with unusable ones and as user u1;
\* ip2 without credentials.
Senders ==
    { [ip |-> "ip1", header |-> h] : h \in {g \in Headers : g.token # "u2"} } \cup
    { [ip |-> "ip2", header |-> [scheme |-> "none", token |-> "none"]] }

Request(s, b) ==
    [route |-> b.route, ip |-> s.ip, header |-> s.header, user |-> NoUser,
     tokenPayload |-> NoUser, path |-> b.route, code |-> b.code,
     language |-> b.language, file |-> b.file]

Init ==
    /\ PipeIdle
    /\ ParseIdle
    /\ AuthIdle
    /\ ClientIdle
    /\ ManageIdle
    /\ client \in BOOLEAN
    /\ InvokerIdle
    /\ StoreIdle
    /\ LimiterIdle

PipeArrive ==
    /\ ppc = "idle"
    /\ \E s \in Senders, b \in Bodies, lookup \in Lookups :
          /\ optionalAuth(s.header, lookup).user # NoUser => nextId <= MaxReviews
          /\ LET a == optionalAuth(s.header, lookup)
                 req == [Request(s, b) EXCEPT !.user = a.user,
                                              !.tokenPayload = a.tokenPayload] IN
             skip("anonymous", req) \/ WithinBounds("anonymous", req)
          /\ Arrive(Request(s, b), lookup)
    /\ UNCHANGED seen

AiResponds == \E text \in ResponseTexts : ExternalResponds(text, 0)

AiFails == \E e \in TransportErrors : ExternalFails(e, 0)

PipeSaves == \E dbOk \in BOOLEAN : PipeSave(dbOk)

Next ==
    \/ PipeArrive
    \/ PipeSkip
    \/ PipeCheck
    \/ PipeDecide
    \/ PipeHandle
    \/ AiResponds
    \/ AiFails
    \/ TimeoutFires
    \/ BackoffElapsed
    \/ PipeCatch
    \/ PipeSaves
    \/ PipeFinish

Spec == Init /\ [][Next]_vars

----------------------------------------------------------------------------
\* SpecAdmission: one address without credentials and one identified user
\* send valid /analyze requests, all within one window, and the external
\* model answers each of them.

AdmissionBody ==
    [route |-> "analyze", code |-> [str |-> TRUE, len |-> 1],
     language |-> [str |-> TRUE, text |-> "sql"], file |-> "none"]

AdmissionSenders ==
    { [ip |-> "ip1", header |-> [scheme |-> "none", token |-> "none"]],
      [ip |-> "ip1", header |-> [scheme |-> "Bearer", token |-> "u1"]] }

GoodText ==
    ResponseText(Wrap("json", <<ValueTok(JsonValue("object", NoFields))>>), {})

InitAdmission ==
    /\ PipeIdle
    /\ ParseIdle
    /\ AuthIdle
    /\ ClientIdle
    /\ ManageIdle
    /\ client = TRUE
    /\ InvokerIdle
    /\ StoreIdle
    /\ LimiterIdle

\* The identified requests are counted per identity as section 4.2 counts
\* the authenticated class.
AdmissionArrive ==
    \E s \in AdmissionSenders :
        LET a == optionalAuth(s.header, "found")
            c == "authenticated"
            win == SpecStep(seen[c][a.user], now, c) IN
        /\ Arrive(Request(s, AdmissionBody), "found")
        /\ IF a.user # NoUser
           THEN /\ win.n <= SpecLimit(c) + MaxOver
                /\ seen' = [seen EXCEPT ![c][a.user] = win]
           ELSE UNCHANGED seen

AdmissionResponds == ExternalResponds(GoodText, 0)

AdmissionSaves == PipeSave(TRUE)

NextAdmission ==
    \/ AdmissionArrive
    \/ PipeSkip
    \/ PipeCheck
    \/ PipeDecide
    \/ PipeHandle
    \/ AdmissionResponds
    \/ AdmissionSaves
    \/ PipeFinish

SpecAdmission == InitAdmission /\ [][NextAdmission]_vars

----------------------------------------------------------------------------
\* SpecLive: /analyze requests, one at a time, from one address without
\* credentials and from one identified user, with a valid or an invalid body,
\* against every behaviour of the external model, on a server that keeps
\* running: a callback or timer that is ready is eventually run.  The
\* external model need not ever answer.

LiveBodies ==
    { AdmissionBody, [AdmissionBody EXCEPT !.language = [str |-> TRUE, text |-> ""]] }

LiveTexts == {GoodText, ResponseText(<<JunkTok>>, {})}

LiveArrive ==
    /\ ppc = "idle"
    /\ \E s \in AdmissionSenders, b \in LiveBodies :
          /\ optionalAuth(s.header, "found").user # NoUser => nextId <= MaxReviews
          /\ LET a == optionalAuth(s.header, "found")
                 req == [Request(s, b) EXCEPT !.user = a.user,
                                              !.tokenPayload = a.tokenPayload] IN
             skip("anonymous", req) \/ WithinBounds("anonymous", req)
          /\ Arrive(Request(s, b), "found")
    /\ UNCHANGED seen

LiveResponds == \E text \in LiveTexts : ExternalResponds(text, 0)

\* The steps of the server, of its timers and of the external model: every
\* step but the arrival of a request.
Serve ==
    \/ PipeSkip
    \/ PipeCheck
    \/ PipeDecide
    \/ PipeHandle
    \/ LiveResponds
    \/ AiFails
    \/ TimeoutFires
    \/ BackoffElapsed
    \/ PipeCatch
    \/ PipeSaves
    \/ PipeFinish

NextLive == LiveArrive \/ Serve

SpecLive == Init /\ [][NextLive]_vars /\ WF_vars(Serve)

----------------------------------------------------------------------------
\* SpecParse: parseResponse on a payload as it is and inside a fenced block,
\* then an analyzeCode call that the external model answers with the fenced
\* payload.

SomeObject ==
    JsonValue("object",
              [NoFields EXCEPT !["security"] =
                  ArrayField(<<Item("object", "High", Line("number", TRUE, 7))>>)])

\* The payloads: one JSON value, and texts that are no JSON (among them a
\* payload that is itself fenced).
ParsePayloads ==
    { <<ValueTok(v)>> : v \in JsonValues } \cup
    { <<>>, <<JunkTok>>, <<FenceTok>>,
      <<WsTok, ValueTok(SomeObject), WsTok>>,
      <<JsonTok, ValueTok(SomeObject)>>,
      <<ValueTok(SomeObject), WsTok, FenceTok>>,
      Wrap("json", <<ValueTok(SomeObject)>>),
      Wrap("plain", <<ValueTok(SomeObject)>>) }

InitParse ==
    /\ PipeIdle
    /\ rPayload \in ParsePayloads
    /\ rPlain = NoParse
    /\ rFenced = NoParse
    /\ AuthIdle
    /\ ClientIdle
    /\ ManageIdle
    /\ client = TRUE
    /\ InvokerIdle
    /\ StoreIdle
    /\ LimiterIdle

ParsePlain ==
    /\ ~rPlain.done
    /\ rPlain' = ParseRecord(TRUE, "none", parseResponse(ResponseText(rPayload, {})))
    /\ UNCHANGED <<rPayload, rFenced>>
    /\ UNCHANGED <<invokerVars, storeVars, limiterVars, pipeVars, clientVars, authVars,
                 manageVars>>

ParseFenced ==
    /\ rPlain.done
    /\ ~rFenced.done
    /\ \E f \in Fences \ {"none"} :
          rFenced' = ParseRecord(TRUE, f,
                                 parseResponse(ResponseText(Wrap(f, rPayload), {})))
    /\ UNCHANGED <<rPayload, rPlain>>
    /\ UNCHANGED <<invokerVars, storeVars, limiterVars, pipeVars, clientVars, authVars,
                 manageVars>>

ParseCall ==
    /\ rFenced.done
    /\ analyzeCode([str |-> TRUE, len |-> 1], [str |-> TRUE, text |-> "sql"])
    /\ UNCHANGED <<storeVars, limiterVars, pipeVars, parseVars, clientVars, authVars,
                 manageVars>>

ParseResponds ==
    ExternalResponds(ResponseText(Wrap(rFenced.fence, rPayload), {}), 0)

NextParse ==
    \/ ParsePlain
    \/ ParseFenced
    \/ ParseCall
    \/ ParseResponds

SpecParse == InitParse /\ [][NextParse]_vars

----------------------------------------------------------------------------
\* SpecAuth: optionalAuth and authenticateToken over the user directory

InitAuth ==
    /\ PipeIdle
    /\ ParseIdle
    /\ AuthIdle
    /\ ClientIdle
    /\ ManageIdle
    /\ client = TRUE
    /\ InvokerIdle
    /\ StoreIdle
    /\ LimiterIdle

AuthOthers ==
    UNCHANGED <<invokerVars, storeVars, limiterVars, pipeVars, parseVars,
                clientVars, manageVars>>

AuthOptionalStep ==
    /\ \E ip \in Ips, header \in AuthHeaders, dbOk \in BOOLEAN :
          AuthOptional(ip, header, dbOk)
    /\ AuthOthers

AuthRequiredStep ==
    /\ \E ip \in Ips, header \in AuthHeaders, dbOk \in BOOLEAN :
          AuthRequired(ip, header, dbOk)
    /\ AuthOthers

AuthFinishStep == AuthFinish /\ AuthOthers

AuthUserRemoved ==
    /\ mpc = "idle"
    /\ \E u \in Users : UserRemoved(u)
    /\ AuthOthers

NextAuth ==
    \/ AuthOptionalStep
    \/ AuthRequiredStep
    \/ AuthFinishStep
    \/ AuthUserRemoved

SpecAuth == InitAuth /\ [][NextAuth]_vars

----------------------------------------------------------------------------
\* SpecManage: requests to the review-management routes, one at a time,
\* while reviews are created and accounts are deleted.

ManageHeaders == AuthHeaders

ManageRequests ==
    { ManageRequest("list", "ip1", h, 0, p, 1, "", "none") :
        h \in ManageHeaders, p \in {-1, 1, 2} } \cup
    { ManageRequest("list", "ip1", h, 0, 1, 101, "", "none") : h \in ManageHeaders } \cup
    { ManageRequest("list", "ip1", h, 0, 1, 1, "", "sql") : h \in ManageHeaders } \cup
    { ManageRequest("search", "ip1", h, 0, 1, 1, q, "none") :
        h \in ManageHeaders, q \in {"", "x"} } \cup
    { ManageRequest("stats", "ip1", h, 0, 0, 0, "", "none") : h \in ManageHeaders } \cup
    { ManageRequest(route, "ip1", h, id, 0, 0, "", "none") :
        route \in {"get", "delete"}, h \in ManageHeaders, id \in ReviewIds }

\* The window of u1 in the authenticated class is empty or used up.
FullWindow == [count |-> authenticatedMax, start |-> 0]

InitManage ==
    /\ PipeIdle
    /\ ParseIdle
    /\ AuthIdle
    /\ ClientIdle
    /\ ManageIdle
    /\ client = TRUE
    /\ InvokerIdle
    /\ StoreIdle
    /\ now = 0
    /\ inflight = {}
    /\ lastDecision = NoDecision
    /\ \E full \in BOOLEAN :
          /\ hits = [c \in Classes |-> [k \in LimKeys |->
                       IF full /\ c = "authenticated" /\ k = UserKey("u1")
                       THEN FullWindow ELSE NoRecord]]
          /\ seen = [c \in Classes |-> [k \in Callers |->
                       IF full /\ c = "authenticated" /\ k = "u1"
                       THEN [n |-> authenticatedMax, start |-> 0,
                             prevFull |-> FALSE, admitted |-> authenticatedMax]
                       ELSE NoWindow]]

ManageOthers == UNCHANGED <<invokerVars, pipeVars, parseVars, clientVars, authVars>>

ManageArrives ==
    /\ \E req \in ManageRequests, dbOk \in BOOLEAN : ManageArrive(req, dbOk)
    /\ ManageOthers

ManageChecks == ManageCheck /\ ManageOthers

ManageDecides == ManageDecide /\ ManageOthers

ManageHandles ==
    /\ \E matching \in SUBSET reviews, dbOk \in BOOLEAN : ManageHandle(matching, dbOk)
    /\ ManageOthers

ManageFinishes == ManageFinish /\ ManageOthers

\* The analyze route saves a review for a user.
ManageCreate ==
    /\ mpc = "idle"
    /\ nextId <= MaxReviews
    /\ \E u \in Users :
          createReview(u, [str |-> TRUE, len |-> 1], [str |-> TRUE, text |-> "sql"],
                       TRUE, TRUE)
    /\ UNCHANGED <<invokerVars, limiterVars, pipeVars, parseVars, clientVars, authVars,
                   manageVars>>

ManageUserRemoved ==
    /\ mpc = "idle"
    /\ UserRemoved("u1")
    /\ storeResp' = NoResp
    /\ UNCHANGED <<reviews, nextId, pending>>
    /\ UNCHANGED <<invokerVars, limiterVars, pipeVars, parseVars, clientVars,
                   manageVars>>

NextManage ==
    \/ ManageArrives
    \/ ManageChecks
    \/ ManageDecides
    \/ ManageHandles
    \/ ManageFinishes
    \/ ManageCreate
    \/ ManageUserRemoved

SpecManage == InitManage /\ [][NextManage]_vars

----------------------------------------------------------------------------
\* Claims about GeminiService.analyzeCode (SpecInvoker)

AllTimedOut ==
    /\ attemptLog # <<>>
    /\ \A i \in 1 .. Len(attemptLog) : attemptLog[i] = "timeout"

\* C2: retry ceiling.  When every attempt of the external call times out,
\* analyzeCode never makes more than 2 external calls, and it ends having made
\* exactly 2, having waited exactly one backoff of 1000 ms (the second call
\* starts 15000 + 1000 ms after the first), by throwing one GeminiServiceError
\* whose originalError is the timeout error of the last attempt.
C2_RetryCeiling ==
    AllTimedOut =>
        /\ extCalls <= 2
        /\ gpc # "returned"
        /\ gpc = "thrown" =>
              /\ extCalls = 2
              /\ Len(attemptLog) = 2
              /\ delays = <<1000>>
              /\ elapsed = 15000 + 1000 + 15000
              /\ gOutcome.kind = "thrown"
              /\ gOutcome.error.name = "GeminiServiceError"
              /\ gOutcome.error.origName = "GeminiTimeoutError"
              /\ lastError = GeminiTimeoutError

C2_Witness ==
    /\ gpc = "thrown"
    /\ attemptLog = <<"timeout", "timeout">>
    /\ extCalls = 2

\* C3: a GeminiConfigError or GeminiParseError is never retried.  Once an
\* attempt has ended in one of them the call has thrown that very error (not
\* the aggregated GeminiServiceError) and every external call made belongs to
\* a finished attempt; a second external call is only ever made after an
\* attempt that ended in a timeout or a transport failure.
C3_NoRetryOnConfigOrParse ==
    /\ lastError.name \in {"GeminiConfigError", "GeminiParseError"} =>
          /\ gpc = "thrown"
          /\ gOutcome = Thrown(lastError)
          /\ gOutcome.error.origName = "none"
          /\ extCalls = Len(attemptLog)
    /\ gOutcome.error.name = "GeminiConfigError" => extCalls = 0
    /\ extCalls >= 2 => attemptLog[1] \in {"timeout", "transport"}

C3_Witness ==
    /\ gpc = "thrown"
    /\ gOutcome.error.name = "GeminiParseError"
    /\ attemptLog = <<"transport", "text">>
    /\ extCalls = 2

----------------------------------------------------------------------------
\* Claims about ReviewService (SpecStore, SpecStoreRace)

\* C7: ownership.  A getReviewById or deleteReview call (through GET /:id or
\* DELETE /:id) for a review that exists and is owned by somebody else never
\* answers success or not-found and removes nothing; whenever its fetch of
\* the row succeeded it throws AuthorizationError, answered as HTTP 403; and
\* no call by a non-owner ever gets as far as the delete statement.
C7_Ownership ==
    /\ ( /\ storeResp.op \in {"get", "delete"}
         /\ storeResp.user \in Users
         /\ storeResp.ownerAt \in Users
         /\ storeResp.ownerAt # storeResp.user )
       => /\ storeResp.status \notin {200, 404}
          /\ storeResp.removed = {}
          /\ storeResp.fetched =>
                /\ storeResp.error = "AuthorizationError"
                /\ storeResp.status = 403
    /\ \A i \in 1 .. Len(pending) : pending[i].ownerAt = pending[i].user

C7_Witness ==
    /\ storeResp.op = "delete"
    /\ storeResp.user \in Users
    /\ storeResp.status = 403
    /\ storeResp.error = "AuthorizationError"
    /\ \E r \in reviews : r.id = storeResp.reviewId /\ r.user_id # storeResp.user

\* C8: every row a deleteReview call removes is owned, at the moment of the
\* delete statement, by the userId of that call, also when the row was given
\* to another user between the call's ownership check and its delete.
C8_DeleteOnlyByOwner ==
    \A r \in storeResp.removed :
        /\ storeResp.op = "delete"
        /\ r.id = storeResp.reviewId
        /\ r.user_id = storeResp.user

\* A delete whose row changed owner after the ownership check: the statement
\* matched no row and the row is still there.
C8_Witness ==
    /\ storeResp.op = "delete"
    /\ storeResp.status = 200
    /\ storeResp.removed = {}
    /\ \E r \in reviews : r.id = storeResp.reviewId /\ r.user_id # storeResp.user

----------------------------------------------------------------------------
\* Claims about the rate limiters (SpecLimiter)

\* C4: fixed-window admission.  For every limiter and caller, counting the
\* checks of a window as section 4.2 does (a window of the class's length,
\* started by the first check and restarted by the first check after it has
\* elapsed): the limiter's count of a check is its number in its window
\* (1 again for the first check after the window elapsed), the checks
\* numbered 1 .. limit are admitted, and every later check of the window is
\* rejected with 429.
C4_FixedWindow ==
    /\ \A e \in inflight : e.totalHits = e.n
    /\ lastDecision.kind = "admitted" => lastDecision.pos \in {"first", "within"}
    /\ lastDecision.kind = "rejected" =>
          /\ lastDecision.pos \in {"next", "beyond"}
          /\ lastDecision.status = 429

\* The first check after a window that had gone over its limit has elapsed is
\* admitted.
C4_Witness ==
    /\ lastDecision.kind = "admitted"
    /\ lastDecision.class = "authenticated"
    /\ lastDecision.pos = "first"
    /\ lastDecision.prevFull

\* C5: under every interleaving of the checks and decisions of concurrent
\* requests, the number of requests a limiter admits for one caller within
\* one window never exceeds the limit of the class (5, 5 and 30).
C5_NeverOverLimit ==
    \A c \in Classes : \A who \in Callers :
        seen[c][who].admitted <= SpecLimit(c)

\* Two requests of one caller are in flight together, one the last within
\* the limit and one just over it.
C5_Witness ==
    \E e1 \in inflight : \E e2 \in inflight :
        /\ e1.caller = e2.caller
        /\ e1.n = SpecLimit(e1.class)
        /\ e2.n = SpecLimit(e1.class) + 1
        /\ seen[e1.class][e1.caller].admitted = SpecLimit(e1.class) - 1

----------------------------------------------------------------------------
\* Claims about the /analyze and /upload routes (Spec, SpecAdmission)

\* C1: persistence isolation.  Whenever a request was answered after its
\* handler called createReview and createReview threw, the request has a
\* resolved identity, its analyzeCode call returned, and the response is the
\* success response: status 200, the analysis analyzeCode returned, saved
\* false and no reviewId; no row was added.
C1_PersistenceIsolation ==
    (ppc = "responded" /\ plog.saveCalls > 0 /\ plog.saveError # "none") =>
        /\ preq.user \in Users
        /\ gOutcome.kind = "returned"
        /\ presp.status = 200
        /\ presp.hasAnalysis
        /\ presp.analysis = gOutcome.value
        /\ presp.saved = FALSE
        /\ presp.reviewId = 0
        /\ \A r \in reviews : r.id < nextId

\* An identified upload whose analysis succeeded and whose insert failed.
C1_Witness ==
    /\ ppc = "responded"
    /\ preq.route = "upload"
    /\ preq.user \in Users
    /\ plog.saveCalls = 1
    /\ plog.saveError = "InternalServerError"
    /\ storeResp.op = "create"
    /\ presp.status = 200
    /\ ~presp.saved

\* C9: createReview is called only by a request whose analyzeCode call
\* returned and that has a resolved identity (req.user), and for that user;
\* a request without req.user, or whose analyzeCode threw, is answered
\* without any createReview call and not as saved.
C9_CreateOnlyAfterSuccess ==
    /\ plog.saveCalls > 0 =>
          /\ gOutcome.kind = "returned"
          /\ plog.aiCalls = 1
          /\ preq.user \in Users
    /\ storeResp.op = "create" =>
          /\ plog.saveCalls = 1
          /\ storeResp.user = preq.user
    /\ (ppc = "responded" /\ (preq.user = NoUser \/ gOutcome.kind # "returned")) =>
          /\ plog.saveCalls = 0
          /\ storeResp.op = "none"
          /\ ~presp.saved

\* An identified request whose analysis succeeded and was saved.
C9_Witness ==
    /\ ppc = "responded"
    /\ plog.saveCalls = 1
    /\ gOutcome.kind = "returned"
    /\ presp.saved
    /\ \E r \in reviews : r.id = presp.reviewId /\ r.user_id = preq.user

\* C10: when analyzeCode threw, the response carries the kind of the failure:
\* 503 for an unconfigured invoker (GeminiConfigError), 503 for exhausted
\* timeouts or transport failures (the aggregated GeminiServiceError), 400
\* for a failed input precondition of analyzeCode (a GeminiServiceError
\* without original error), and 500 only for the other failures.
C10_ErrorKindMapping ==
    (ppc = "responded" /\ plog.aiCalls > 0 /\ gOutcome.kind = "thrown") =>
        LET e == gOutcome.error IN
        /\ e.name = "GeminiConfigError" => presp.status = 503
        /\ (e.name = "GeminiServiceError" /\ e.origName # "none") =>
              presp.status = 503
        /\ (e.name = "GeminiServiceError" /\ e.origName = "none") =>
              presp.status = 400
        /\ presp.status = 500 => e.name = "GeminiParseError"

\* C6: an analyze request reaches analyzeCode only as one of the first 5 of
\* its address's window when it is anonymous, and only as one of the first
\* 30 of its identity's window when it has a resolved identity; a request of
\* an identity beyond the 30th of the window is answered 429.
C6_AdmissionByClass ==
    /\ plog.aiCalls > 0 =>
          IF preq.user # NoUser
          THEN seen["authenticated"][preq.user].n <= SpecLimit("authenticated")
          ELSE seen["anonymous"][preq.ip].n <= SpecLimit("anonymous")
    /\ ( /\ ppc = "responded"
         /\ preq.user # NoUser
         /\ seen["authenticated"][preq.user].n > SpecLimit("authenticated") )
       => presp.status = 429

----------------------------------------------------------------------------
\* Claims about parseResponse (SpecParse)

AllEntries(result) ==
    UNION { { result[name][i] : i \in 1 .. Len(result[name]) } : name \in FieldNames }

\* C11: every AnalysisResult a successful analyzeCode returns has the four
\* fields security, performance, bestPractices and refactoring, each an
\* array; the line of every entry is a non-negative integer; the severity of
\* every security entry is one of Critical, High, Medium, Low.
C11_CanonicalShape ==
    gpc = "returned" =>
        /\ DOMAIN gOutcome.value = FieldNames
        /\ \A name \in FieldNames : DOMAIN gOutcome.value[name] \subseteq Nat
        /\ \A e \in AllEntries(gOutcome.value) :
              /\ e.line.t = "number"
              /\ e.line.whole
              /\ e.line.v >= 0
        /\ \A i \in 1 .. Len(gOutcome.value.security) :
              gOutcome.value.security[i].severity \in Severities

\* The payload of the state parses as JSON, and every entry of its arrays is
\* an object.
ParsesWithObjectEntries ==
    /\ JsonParse(CleanResponse(rPayload)) # NoValue
    /\ \A name \in FieldNames :
          \A i \in 1 .. Len(JsonParse(CleanResponse(rPayload)).fields[name].items) :
              JsonParse(CleanResponse(rPayload)).fields[name].items[i].kind = "object"

\* The payload is no object, or one of the four fields is missing or no array.
NeedsRepair ==
    LET v == JsonParse(CleanResponse(rPayload)) IN
    \/ v.kind # "object"
    \/ \E name \in FieldNames : ~(v.fields[name].present /\ v.fields[name].array)

\* C12: a payload that parses as structured data but is not an object, or in
\* which one of the four fields is missing or not an array, never makes
\* analyzeCode fail: the call returns a result in which each such field is
\* the empty array and the other fields keep their entries.
C12_RepairNeverFails ==
    (ParsesWithObjectEntries /\ NeedsRepair /\ gpc \in {"returned", "thrown"}) =>
        LET v == JsonParse(CleanResponse(rPayload)) IN
        /\ gpc = "returned"
        /\ \A name \in FieldNames :
              /\ ~(v.fields[name].present /\ v.fields[name].array) =>
                    gOutcome.value[name] = <<>>
              /\ Len(gOutcome.value[name]) = Len(RepairField(v, name))

\* What a parseResponse call came to: its result, or a parse error.
Outcome(r) == [ok |-> r.ok, value |-> r.value]

\* C13 as stated: for every payload P, parseResponse of P inside a ``` or
\* ```json fenced block has the same outcome (the same AnalysisResult, or a
\* parse error in both cases) as parseResponse of P.
C13_FenceInsensitive ==
    (rPlain.done /\ rFenced.done) => Outcome(rFenced) = Outcome(rPlain)

\* C13 amended: the same, for every payload P that does not itself begin with
\* a ``` fence.
C13_FenceInsensitiveUnfenced ==
    (rPlain.done /\ rFenced.done /\ ~StartsWith(Trim(rPayload), <<FenceTok>>)) =>
        Outcome(rFenced) = Outcome(rPlain)

\* A JSON object with entries, parsed to the same non-empty result with and
\* without the ```json fence.
C13_Witness ==
    /\ rPlain.done
    /\ rFenced.done
    /\ rFenced.fence = "json"
    /\ rPayload = <<ValueTok(SomeObject)>>
    /\ rFenced.ok
    /\ rPlain.ok
    /\ rFenced.value = rPlain.value
    /\ rPlain.value.security # <<>>

----------------------------------------------------------------------------
\* Claims about optionalAuth and authenticateToken (SpecAuth, SpecManage)

\* The user a header's token verifies for, or NoUser.
SubjectOf(header) == verifyToken(extractTokenFromHeader(header))

\* C14: optional identity resolution never blocks.  For every credential
\* header optionalAuth sends no error response and calls next(); it attaches
\* an identity (req.user or req.tokenPayload) only for a valid token whose
\* subject exists, so a request with no header, a header that is not
\* "Bearer <token>", an invalid or expired token, or a token whose subject
\* no longer exists is passed on as anonymous.
C14_OptionalNeverBlocks ==
    areq.mode = "optional" =>
        /\ areq.outcome.status = 0
        /\ areq.outcome.next
        /\ (areq.outcome.user # NoUser \/ areq.outcome.tokenPayload # NoUser) =>
              SubjectOf(areq.header) \in directory

\* The request in the management chain has a missing, malformed, invalid or
\* expired credential, or the subject of its token no longer exists.
BadCredential == SubjectOf(mreq.header) \notin directory

\* C15: on the routes that require identity a request with a missing,
\* malformed, invalid or expired credential, or whose token subject no longer
\* exists, is answered 401 before any other work: no rate-limit counter is
\* incremented and no review-store operation is performed for it.
C15_RejectedBeforeWork ==
    (mpc # "idle" /\ BadCredential) =>
        /\ mpc = "responded"
        /\ mresp.status = 401
        /\ mlog.limiterChecks = 0
        /\ mlog.storeOps = 0

----------------------------------------------------------------------------
\* More claims about the /analyze and /upload routes (Spec)

\* C16: in every successful analyze response saved is true only if the
\* request carried a bearer credential that was verified, saved is true
\* exactly when a reviewId is present, and when saved is true the store holds
\* a review with that id, owned by the requesting identity.
C16_SavedFlag ==
    (ppc = "responded" /\ presp.status = 200) =>
        /\ presp.saved =>
              /\ preq.header.scheme = "Bearer"
              /\ verifyToken(extractTokenFromHeader(preq.header)) \in Users
              /\ preq.user = verifyToken(extractTokenFromHeader(preq.header))
        /\ presp.saved <=> presp.reviewId # 0
        /\ presp.saved =>
              \E r \in reviews : r.id = presp.reviewId /\ r.user_id = preq.user

\* The analysis of u1's /analyze request was saved as review 1.
C16_Witness ==
    /\ ppc = "responded"
    /\ preq.route = "analyze"
    /\ preq.header = [scheme |-> "Bearer", token |-> "u1"]
    /\ presp.status = 200
    /\ presp.saved
    /\ presp.reviewId = 1
    /\ [id |-> 1, user_id |-> "u1"] \in reviews

----------------------------------------------------------------------------
\* More claims about the rate limiters (SpecLimiter)

\* C17: every rejection by a limiter is a 429 response whose retryAfter is
\* strictly positive and at most the window of the limiter's class in seconds.
C17_RetryAfter ==
    lastDecision.kind = "rejected" =>
        /\ lastDecision.status = 429
        /\ lastDecision.retryAfter > 0
        /\ lastDecision.retryAfter * 1000 <= windowMs(lastDecision.class)

----------------------------------------------------------------------------
\* Claims about the review-management routes (SpecManage)

\* The rows of the reviews table that the owner of the answered request owns.
OwnedRows == {r \in reviews : r.user_id = mlog.owner}

\* C18: owner scoping of reads.  After any sequence of creates and deletes,
\* every review that getUserReviews, searchReviews or getUserStats returns for
\* ownerId is a row owned by ownerId, and the reported total counts only rows
\* owned by ownerId (all of them when no filter is given).
C18_OwnerScopedReads ==
    (mpc = "responded" /\ mreq.route \in {"list", "search", "stats"}
       /\ mresp.status = 200) =>
        /\ mlog.owner \in Users
        /\ mlog.owner = mreq.user
        /\ \A i \in 1 .. Len(mresp.rows) : mresp.rows[i] \in OwnedRows
        /\ mresp.total <= Cardinality(OwnedRows)
        /\ Len(mresp.rows) <= mresp.total
        /\ (mreq.route = "stats" \/ (mreq.route = "list" /\ mreq.language = "none")) =>
              mresp.total = Cardinality(OwnedRows)

\* A user lists their reviews while another user has a review too: one row
\* comes back, and the total is one.
C18_Witness ==
    /\ mpc = "responded"
    /\ mreq.route = "list"
    /\ mresp.status = 200
    /\ Len(mresp.rows) = 1
    /\ mresp.total = 1
    /\ \E r \in reviews : r.user_id # mlog.owner

----------------------------------------------------------------------------
\* More claims about ReviewService (SpecStore)

\* C19: a deleteReview call that finds no row with the id fails with
\* not-found and changes nothing; a call by the owner that succeeds leaves the
\* table without a row of that id, so that getReviewById(id, ownerId) fails
\* with not-found, and with every other row as it was; a call that fails
\* changes nothing.
C19_DeleteExactly ==
    [][storeResp'.op = "delete" =>
          /\ (storeResp'.fetched /\ storeResp'.ownerAt = "none") =>
                storeResp'.error = "NotFoundError"
          /\ storeResp'.error = "none" =>
                /\ storeResp'.ownerAt = storeResp'.user
                /\ reviews' = {r \in reviews : r.id # storeResp'.reviewId}
                /\ FetchAndCheck(reviews', storeResp'.reviewId, storeResp'.user,
                                 TRUE) = NotFoundError
          /\ storeResp'.error # "none" => reviews' = reviews]_vars

\* The owner deleted one of the two reviews of the table.
C19_Witness ==
    /\ storeResp.op = "delete"
    /\ storeResp.error = "none"
    /\ storeResp.ownerAt = storeResp.user
    /\ Cardinality(storeResp.removed) = 1
    /\ Cardinality(reviews) = 1

----------------------------------------------------------------------------
\* Claims about the order of the stages of a request (SpecLive)

\* The steps a request takes through the chain: identity, then the admission
\* check, then the handler and analyzeCode, then the response.
StageOrder ==
    { <<"idle", "limiter">>, <<"limiter", "handler">>, <<"limiter", "limiting">>,
      <<"limiting", "handler">>, <<"limiting", "responded">>,
      <<"handler", "analyzing">>, <<"handler", "responded">>,
      <<"analyzing", "responded">>, <<"responded", "idle">> }

----------------------------------------------------------------------------
----------------------------------------------------------------------------
\* SpecClasses: one server with its three limiters in use at once.  An
\* /analyze request (anonymousReviewLimiter), a /stats request
\* (authenticateToken, authenticatedReviewLimiter) and requests to the auth
\* routes (authLimiter) are in progress together, from the same address, with
\* and without credentials.  The windows of the address in the anonymous
\* class and of u1 in the authenticated class start empty or used up; of a
\* window that starts empty the first MaxServed requests are followed.

ClassesSenders ==
    AdmissionSenders \cup
    { [ip |-> "ip2", header |-> [scheme |-> "Bearer", token |-> "u1"]] }

\* The body fails validation: the request ends at validateRequest, after the
\* limiter.
ClassesBodies ==
    { [AdmissionBody EXCEPT !.language = [str |-> TRUE, text |-> ""]] }

ClassesAuthRequests ==
    {req \in LimiterRequests :
        req.user = NoUser /\ req.tokenPayload = NoUser /\ req.ip = "ip1"}

ClassesHeaders ==
    { [scheme |-> "none", token |-> "none"], [scheme |-> "Bearer", token |-> "u1"] }

FullOf(c) == [count |-> max(c), start |-> 0]

InitClasses ==
    /\ PipeIdle
    /\ ParseIdle
    /\ AuthIdle
    /\ ClientIdle
    /\ ManageIdle
    /\ client = TRUE
    /\ InvokerIdle
    /\ StoreIdle
    /\ now = 0
    /\ inflight = {}
    /\ lastDecision = NoDecision
    /\ \E full \in SUBSET {"anonymous", "authenticated"} :
          /\ hits = [c \in Classes |-> [k \in LimKeys |->
                       IF c \in full /\ k \in {"ip1", UserKey("u1")}
                                     /\ (c = "authenticated") = (k = UserKey("u1"))
                       THEN FullOf(c) ELSE NoRecord]]
          /\ seen = [c \in Classes |-> [k \in Callers |->
                       IF c \in full /\ k \in {"ip1", "u1"}
                                     /\ (c = "authenticated") = (k = "u1")
                       THEN [n |-> max(c), start |-> 0, prevFull |-> FALSE,
                             admitted |-> max(c)]
                       ELSE NoWindow]]

\* The count of the key of req in class c is among those followed.
Followed(c, req) ==
    LET n == hits[c][keyGenerator(c, req)].count IN
    n < MaxServed \/ n >= max(c)

ClassesArrive ==
    /\ ppc = "idle"
    /\ \E s \in ClassesSenders, b \in ClassesBodies, lookup \in Lookups :
          /\ LET a == optionalAuth(s.header, lookup)
                 req == [Request(s, b) EXCEPT !.user = a.user,
                                              !.tokenPayload = a.tokenPayload] IN
             skip("anonymous", req) \/
                (WithinBounds("anonymous", req) /\ Followed("anonymous", req))
          /\ Arrive(Request(s, b), lookup)
    /\ UNCHANGED seen

ClassesPipeCheck == inflight = {} /\ PipeCheck

ClassesManageArrive ==
    /\ \E h \in ClassesHeaders, dbOk \in BOOLEAN :
          ManageArrive(ManageRequest("stats", "ip1", h, 0, 0, 0, "", "none"), dbOk)
    /\ ManageOthers

ClassesManageCheck == inflight = {} /\ ManageChecks

ClassesManageHandle ==
    /\ \E dbOk \in BOOLEAN : ManageHandle({}, dbOk)
    /\ ManageOthers

\* A request to an auth route reaches authLimiter, which counts it ...
ClassesAuthCheck ==
    /\ inflight = {}
    /\ \E req \in ClassesAuthRequests :
          /\ Followed("auth", req)
          /\ LimiterCheck("auth", req)
    /\ UNCHANGED <<invokerVars, storeVars, pipeVars, parseVars, clientVars, authVars,
                   manageVars>>

\* ... or skips it ...
ClassesAuthSkip ==
    /\ \E req \in ClassesAuthRequests : LimiterSkip("auth", req)
    /\ UNCHANGED <<invokerVars, storeVars, pipeVars, parseVars, clientVars, authVars,
                   manageVars>>

\* ... and decides.
ClassesAuthDecide ==
    /\ ppc # "limiting"
    /\ mpc # "limiting"
    /\ \E e \in inflight : LimiterDecide(e)
    /\ UNCHANGED <<invokerVars, storeVars, pipeVars, parseVars, clientVars, authVars,
                   manageVars>>

NextClasses ==
    \/ ClassesArrive
    \/ PipeSkip
    \/ ClassesPipeCheck
    \/ PipeDecide
    \/ PipeHandle
    \/ PipeFinish
    \/ ClassesManageArrive
    \/ ClassesManageCheck
    \/ ManageDecides
    \/ ClassesManageHandle
    \/ ManageFinishes
    \/ ClassesAuthCheck
    \/ ClassesAuthSkip
    \/ ClassesAuthDecide

SpecClasses == InitClasses /\ [][NextClasses]_vars

----------------------------------------------------------------------------
\* SpecCharge: addresses without credentials send /analyze requests while
\* time passes.  The body of a request fails validation as long as the
\* request is within the limit of its window; the requests beyond the limit
\* have a valid body.

ChargeBodies(valid) ==
    { b \in Bodies : b.route = "analyze" /\ (Rejection(Request([ip |-> "ip1",
          header |-> [scheme |-> "none", token |-> "none"]], b)) = 0) = valid }

ChargeSenders ==
    { [ip |-> ip, header |-> [scheme |-> "none", token |-> "none"]] : ip \in Ips }

ChargeArrive ==
    /\ ppc = "idle"
    /\ \E s \in ChargeSenders :
          LET c == "anonymous"
              rec == StoreIncrement(hits[c][s.ip], now, windowMs(c)) IN
          \E b \in ChargeBodies(rec.count > max(c)) :
              /\ WithinBounds(c, Request(s, b))
              /\ Arrive(Request(s, b), "found")
    /\ UNCHANGED seen

\* Half a window passes between two requests.
ChargeTick ==
    /\ ppc = "idle"
    /\ Tick("anonymous")
    /\ UNCHANGED <<invokerVars, storeVars, pipeVars, parseVars, clientVars, authVars,
                   manageVars>>

NextCharge ==
    \/ ChargeArrive
    \/ PipeCheck
    \/ PipeDecide
    \/ PipeHandle
    \/ PipeFinish
    \/ ChargeTick

SpecCharge == InitAdmission /\ [][NextCharge]_vars

\* Claims about the retry loop of analyzeCode (SpecInvoker)

\* C21: retries are sequential with exponential backoff.  At most one attempt
\* of a call is in progress at any time: the attempts started are the
\* finished ones plus, while the call awaits the model, one more.  Attempt
\* n+1 is started only from the backoff wait that follows attempt n, which
\* ended in a retryable error (a timeout or a transport failure), and it
\* starts exactly 1000 * 2^(n-1) ms after attempt n ended; the delays awaited
\* are 1000 * 2^(n-1) for n = 1, 2, ...
C21_SequentialBackoff ==
    /\ [](/\ extCalls = Len(attemptLog) + (IF gpc = "awaiting" THEN 1 ELSE 0)
          /\ gpc = "awaiting" => attempt = extCalls
          /\ Len(delays) = (IF extCalls = 0 THEN 0 ELSE extCalls - 1)
          /\ \A n \in 1 .. Len(delays) :
                /\ delays[n] = 1000 * Pow2(n - 1)
                /\ attemptLog[n] \in {"timeout", "transport"})
    /\ [][extCalls' # extCalls =>
            /\ extCalls' = extCalls + 1
            /\ gpc # "awaiting"
            /\ gpc' = "awaiting"
            /\ extCalls >= 1 =>
                  /\ gpc = "backoff"
                  /\ Len(attemptLog) = extCalls
                  /\ lastError.name \in {"GeminiTimeoutError", "Error"}
                  /\ elapsed' = elapsed + 1000 * Pow2(extCalls - 1)]_vars

C21_Witness ==
    /\ gpc = "awaiting"
    /\ attempt = 2
    /\ attemptLog = <<"transport">>
    /\ delays = <<1000>>

\* SpecInvokerLive: SpecInvoker on a running event loop.  A timer that was
\* armed fires: the 15 s timer of an attempt the model has not answered, and
\* the timer of the backoff delay.  Nothing is assumed of the external model.
SpecInvokerLive ==
    /\ InitInvoker
    /\ [][NextInvoker]_vars
    /\ WF_vars(TimeoutFires)
    /\ WF_vars(BackoffElapsed)

Settled == gpc \in {"returned", "thrown"}

\* C22: analyzeCode always terminates.  Whatever the external model does on
\* each attempt (answers, fails, or never answers), a call that was made
\* eventually returns or throws; it makes at most 2 attempts, and when it
\* has settled no more than 2 * 15000 + 1000 ms have passed since it was
\* entered.
C22_Terminates ==
    /\ [](gpc # "idle" => <>Settled)
    /\ [](/\ extCalls <= 2
          /\ Len(attemptLog) <= 2
          /\ elapsed <= 2 * 15000 + 1000)
    /\ [][Settled => UNCHANGED <<gpc, gOutcome, extCalls, elapsed>>]_vars

C22_Witness ==
    /\ gpc = "thrown"
    /\ attemptLog = <<"timeout", "timeout">>
    /\ elapsed = 2 * 15000 + 1000

\* C23: the timeout race.  When the 15 s timer of an attempt fires before
\* the model has answered, that attempt fails with GeminiTimeoutError.  What
\* the abandoned external call does later is discarded: the promise of every
\* finished attempt stays settled the way the attempt ended (a timed-out one
\* stays rejected by its timer), the promise and the timer of the attempt in
\* progress are untouched (pending and armed), and the step in which an
\* abandoned call settles changes neither the call's position, its attempt
\* counter, its last error, the log of its attempts nor its outcome.
C23_TimeoutRace ==
    /\ [](/\ Len(calls) = extCalls
          /\ \A k \in 1 .. Len(attemptLog) :
                /\ calls[k].promise = attemptLog[k]
                /\ attemptLog[k] = "timeout" => calls[k].timer = "fired"
          /\ gpc = "awaiting" => calls[attempt] = NewCall)
    /\ [][/\ Len(attemptLog') > Len(attemptLog)
          /\ attemptLog'[Len(attemptLog')] = "timeout"
          => /\ lastError' = GeminiTimeoutError
             /\ gpc' # "returned"]_vars
    /\ [][abandoned' < abandoned =>
            /\ UNCHANGED <<gpc, gOutcome, lastError, attempt, attemptLog,
                           extCalls, delays, elapsed>>
            /\ \A k \in DOMAIN calls :
                  /\ calls'[k].promise = calls[k].promise
                  /\ calls'[k].timer = calls[k].timer]_vars

C23_Witness ==
    /\ gpc = "awaiting"
    /\ attempt = 2
    /\ attemptLog = <<"timeout">>
    /\ calls[1] = [promise |-> "timeout", timer |-> "fired", ext |-> "done"]

\* The call in progress was made with arguments analyzeCode refuses.
BadInput ==
    \/ ~gInput.code.str
    \/ gInput.code.len = 0
    \/ ~gInput.language.str
    \/ gInput.language.text = ""
    \/ gInput.code.len > 100000

\* C24: the preconditions of analyzeCode.  A call on an invoker that is not
\* configured, or with a code that is empty or no string, or a language that
\* is empty or no string, or a code of more than 100000 characters, has
\* thrown as soon as it was entered (a GeminiConfigError when not configured,
\* else a GeminiServiceError without original error): no external call, no
\* attempt, no backoff delay, no time spent.  Every other call, among them
\* one with a code of exactly 100000 characters, calls the external model.
C24_Preconditions ==
    gpc # "idle" =>
        /\ (~client \/ BadInput) =>
              /\ gpc = "thrown"
              /\ gOutcome.kind = "thrown"
              /\ gOutcome.error =
                    (IF ~client THEN GeminiConfigError
                     ELSE GeminiServiceError({}, NoError))
              /\ extCalls = 0
              /\ calls = <<>>
              /\ attempt = 0
              /\ attemptLog = <<>>
              /\ delays = <<>>
              /\ elapsed = 0
        /\ (client /\ ~BadInput) => extCalls >= 1
        /\ (client /\ gInput.code.str /\ gInput.code.len = 100000
                   /\ gInput.language.str /\ gInput.language.text # "") =>
              extCalls >= 1

C24_Witness ==
    /\ gpc = "thrown"
    /\ client
    /\ gInput.code = [str |-> TRUE, len |-> 100001]
    /\ gInput.language = [str |-> TRUE, text |-> "sql"]
    /\ extCalls = 0

----------------------------------------------------------------------------
\* Claims about the limiter classes side by side (SpecClasses)

\* The counters the step changes.
Changed ==
    { ck \in Classes \X LimKeys : hits'[ck[1]][ck[2]] # hits[ck[1]][ck[2]] }

\* The step is the one in which the limiter of the /analyze request, or of
\* the /stats request, skips or counts it.
AnalyzeLimiterStep == ppc = "limiter" /\ ppc' # "limiter"

ManageLimiterStep == mpc = "limiter" /\ mpc' # "limiter"

\* C25: the limiter classes are disjoint.  The step in which
\* anonymousReviewLimiter handles a request that carries an identity changes
\* no counter at all, and such a request is never answered 429 on /analyze;
\* for a request without identity it changes at most the anonymous counter
\* of the request's address.  The step of authenticatedReviewLimiter changes
\* at most the authenticated counter of the request's user, and the request
\* carries an identity.  No step changes more than one counter, a counter of
\* the anonymous class changes only in a step of anonymousReviewLimiter, one
\* of the authenticated class only in a step of authenticatedReviewLimiter,
\* and one of the auth class in neither.
C25_ClassesDisjoint ==
    /\ [][/\ Cardinality(Changed) <= 1
          /\ AnalyzeLimiterStep =>
                Changed \subseteq
                    (IF preq.user # NoUser \/ preq.tokenPayload # NoUser
                     THEN {} ELSE {<<"anonymous", preq.ip>>})
          /\ ManageLimiterStep =>
                /\ mreq.user # NoUser \/ mreq.tokenPayload # NoUser
                /\ Changed \subseteq
                      {<<"authenticated",
                         UserKey(IF mreq.user # NoUser THEN mreq.user
                                 ELSE mreq.tokenPayload)>>}
          /\ \A ck \in Changed :
                /\ ck[1] = "anonymous" => AnalyzeLimiterStep
                /\ ck[1] = "authenticated" => ManageLimiterStep
                /\ ck[1] = "auth" => ~AnalyzeLimiterStep /\ ~ManageLimiterStep]_vars
    /\ [](ppc = "responded" /\ presp.status = 429 =>
             preq.user = NoUser /\ preq.tokenPayload = NoUser)

\* A request of u1 from ip1 has passed anonymousReviewLimiter while the
\* anonymous window of ip1 is used up and u1 has been counted in the
\* authenticated class.
C25_Witness ==
    /\ ppc = "handler"
    /\ preq.user = "u1"
    /\ preq.ip = "ip1"
    /\ hits["anonymous"]["ip1"].count = anonymousMax
    /\ hits["authenticated"][UserKey("u1")].count = 1
    /\ hits["auth"]["ip1"].count = 1

----------------------------------------------------------------------------
\* Claims about the routes and the middlewares in front of them

\* anonymousReviewLimiter has skipped the request in progress.
SkippedAnonymousLimiter ==
    /\ ppc \in {"handler", "analyzing", "responded"}
    /\ skip("anonymous", preq)

\* C26: on /analyze and /upload the anonymous limiter is bypassed only for
\* requests the handler treats as identified.  Every request that
\* anonymousReviewLimiter skipped has a user id for the handler (req.user),
\* and when its analysis has succeeded the handler has called createReview
\* for it.
C26_BypassOnlyIdentified ==
    SkippedAnonymousLimiter =>
        /\ UserIdForSave(preq) # NoUser
        /\ (ppc = "responded" /\ presp.status = 200) => plog.saveCalls = 1

\* C27: every request authenticateToken passes on to a review-management
\* handler has a user attached.  While such a request is at the limiter or
\* at its handler req.user is defined, and no request that got past
\* authenticateToken is answered by a handler that ran with an undefined
\* user.
C27_UserAttached ==
    /\ mpc \in {"limiter", "limiting", "handler"} => mreq.user # NoUser
    /\ (mpc = "responded" /\ mlog.limiterChecks > 0 /\ mresp.status # 429) =>
          mreq.user # NoUser

----------------------------------------------------------------------------
\* More claims about ReviewService (SpecStore)

\* C28: deleteReview reports success only if its own delete statement
\* removed the row, so that of two concurrent calls by the owner on one
\* existing review exactly one reports success: every delete that is answered
\* with success has removed a row.
C28_OneDeleteSucceeds ==
    (storeResp.op = "delete" /\ storeResp.status = 200) =>
        storeResp.removed # {}

----------------------------------------------------------------------------
\* Claims about the order of admission and validation (SpecCharge)

\* C29: admission is charged before input validation on /analyze.  The
\* limiter counts an anonymous request when it reaches it, whatever its body
\* (the count of its address becomes 1 in a fresh window and one more
\* otherwise), and the 400 of the validation that follows gives nothing
\* back.  So with the requests of a window failing validation up to the
\* limit, each of them is answered 400 having used one unit, and the valid
\* request that follows in the window is answered 429: the count of its
\* address is beyond 5 and analyzeCode is never called.
C29_ChargedBeforeValidation ==
    /\ [][(ppc = "limiter" /\ ppc' # "limiter") =>
            LET old == hits["anonymous"][preq.ip]
                new == hits'["anonymous"][preq.ip] IN
            /\ ppc' = "limiting"
            /\ new.count = (IF old.count = 0 \/ now - old.start >= 3600000
                            THEN 1 ELSE old.count + 1)]_vars
    /\ [][(ppc = "handler" /\ ppc' # "handler") =>
            /\ ppc' = "responded"
            /\ presp'.status = 400
            /\ Rejection(preq) = 400
            /\ hits' = hits
            /\ hits["anonymous"][preq.ip].count \in 1 .. 5]_vars
    /\ [](/\ gpc = "idle"
          /\ plog.aiCalls = 0
          /\ (ppc = "responded" /\ Rejection(preq) = 0) =>
                /\ presp.status = 429
                /\ hits["anonymous"][preq.ip].count > 5)

\* The sixth request of ip1 in a window, the first with a valid body, is
\* rejected by the limiter.
C29_Witness ==
    /\ ppc = "responded"
    /\ preq.ip = "ip1"
    /\ ValidBody(preq)
    /\ presp.status = 429
    /\ hits["anonymous"]["ip1"].count = 6
    /\ seen["anonymous"]["ip1"].admitted = 5

----------------------------------------------------------------------------
\* The client auth store: useAuthStore (client store/authStore.ts) over the
\* token kept in localStorage by the client auth service.  login, register
\* and checkAuth are async: each runs up to its await, the request is in
\* flight while other actions run, and the rest runs when the request
\* settles.  A token is represented by the id of the user it was issued to.

\* set({ user: null, token: null, isAuthenticated: false, isLoading: false })
SetCleared ==
    /\ stateUser' = Null
    /\ stateToken' = Null
    /\ isAuthenticated' = FALSE
    /\ isLoading' = FALSE

\* set({ user, token, isAuthenticated: true, isLoading: false })
SetAuthenticated(u, t) ==
    /\ stateUser' = u
    /\ stateToken' = t
    /\ isAuthenticated' = TRUE
    /\ isLoading' = FALSE

\* What a request settles with: the user the server answers with, a 401
\* (the response interceptor then removes the stored token), or another
\* failure.
Settlements == Users \cup {"401", "failed"}

\* The response interceptor of the api client, on a rejected response.
AfterInterceptor(result) == IF result = "401" THEN Null ELSE authToken

\* login and register up to their await.
loginStart(op) ==
    /\ Len(awaiting) < MaxAwaiting
    /\ isLoading' = TRUE
    /\ awaiting' = Append(awaiting, [op |-> op, storedToken |-> Null])
    /\ UNCHANGED <<stateUser, stateToken, isAuthenticated, authToken>>

\* login and register from their await on; the service stores the token of
\* a successful response before the store is set.
loginSettles(n, result) ==
    /\ awaiting[n].op \in {"login", "register"}
    /\ awaiting' = RemoveAt(awaiting, n)
    /\ IF result \in Users
       THEN /\ authToken' = result
            /\ SetAuthenticated(result, result)
       ELSE /\ authToken' = AfterInterceptor(result)
            /\ isLoading' = FALSE
            /\ UNCHANGED <<stateUser, stateToken, isAuthenticated>>

\* logout
logout ==
    /\ authToken' = Null
    /\ SetCleared
    /\ UNCHANGED awaiting

\* checkAuth up to its await, or to its return when no token is stored.
checkAuthStart ==
    IF authToken = Null
    THEN /\ SetCleared
         /\ UNCHANGED <<authToken, awaiting>>
    ELSE /\ Len(awaiting) < MaxAwaiting
         /\ isLoading' = TRUE
         /\ awaiting' = Append(awaiting,
                               [op |-> "checkAuth", storedToken |-> authToken])
         /\ UNCHANGED <<stateUser, stateToken, isAuthenticated, authToken>>

\* checkAuth from its await on; the server answers with the user of the
\* token the request carried.
checkAuthSettles(n, result) ==
    /\ awaiting[n].op = "checkAuth"
    /\ result \in Users => result = awaiting[n].storedToken
    /\ awaiting' = RemoveAt(awaiting, n)
    /\ IF result \in Users
       THEN /\ SetAuthenticated(result, awaiting[n].storedToken)
            /\ UNCHANGED authToken
       ELSE /\ authToken' = Null
            /\ SetCleared

\* setUser
setUser(u) ==
    /\ stateUser' = u
    /\ UNCHANGED <<stateToken, isAuthenticated, isLoading, authToken, awaiting>>

\* setLoading
setLoading(loading) ==
    /\ isLoading' = loading
    /\ UNCHANGED <<stateUser, stateToken, isAuthenticated, authToken, awaiting>>

ClientOthers ==
    UNCHANGED <<invokerVars, storeVars, limiterVars, pipeVars, parseVars,
                authVars, manageVars>>

InitClient ==
    /\ client = TRUE
    /\ InvokerIdle
    /\ StoreIdle
    /\ LimiterIdle
    /\ PipeIdle
    /\ ParseIdle
    /\ AuthIdle
    /\ ManageIdle
    /\ ClientIdle

ClientLogin == loginStart("login") /\ ClientOthers

ClientRegister == loginStart("register") /\ ClientOthers

ClientLoginSettles ==
    /\ \E n \in DOMAIN awaiting, result \in Settlements :
          loginSettles(n, result)
    /\ ClientOthers

ClientLogout == logout /\ ClientOthers

ClientCheckAuth == checkAuthStart /\ ClientOthers

ClientCheckAuthSettles ==
    /\ \E n \in DOMAIN awaiting, result \in Settlements :
          checkAuthSettles(n, result)
    /\ ClientOthers

ClientSetUser == (\E u \in Users \cup {Null} : setUser(u)) /\ ClientOthers

ClientSetLoading == (\E loading \in BOOLEAN : setLoading(loading)) /\ ClientOthers

NextClient ==
    \/ ClientLogin
    \/ ClientRegister
    \/ ClientLoginSettles
    \/ ClientLogout
    \/ ClientCheckAuth
    \/ ClientCheckAuthSettles
    \/ ClientSetUser
    \/ ClientSetLoading

SpecClient == InitClient /\ [][NextClient]_vars

\* C30: in the client auth store, after any sequence of login, register,
\* logout, checkAuth and setUser, isAuthenticated is true only if both user
\* and token are non-null.
C30_AuthenticatedHasUserAndToken ==
    isAuthenticated => (stateUser # Null /\ stateToken # Null)

====
